---- MODULE Spec2Model ----
(***************************************************************************)
(* KnowledgeVault unified backend (src/knowledge_vault_backend.py).        *)
(*                                                                         *)
(* The record store (users, knowledge items, tags, the item<->tag          *)
(* association table, conversations, chat messages), the uploaded files    *)
(* and the lazily initialised agent system are the state.  Every HTTP      *)
(* handler is a request running in a slot; a handler is cut into steps at  *)
(* its commits and at its call of the generation capability, so that       *)
(* requests of the same or of different users interleave the way           *)
(* concurrently served requests do.                                        *)
(*                                                                         *)
(* Text is a sequence of tokens: a token is a character, and each of the   *)
(* labels "Title:", "Summary:", "Tags:" is one token.                      *)
(***************************************************************************)
EXTENDS Integers, Sequences, FiniteSets, TLC

\* ------------------------------------------------------------------ bounds

\* Rows of knowledge_items under Spec.
MaxItems == 2

\* Rows of knowledge_items under SpecRace.
MaxRaceItems == 2

\* Rows of knowledge_items and chat requests under SpecChat.
MaxChatItems == 1
MaxChats == 2

\* Chat requests under SpecChatRace.
MaxRaceChats == 2

\* Rows of knowledge_items under SpecSearch.
MaxSearchItems == 7

\* Chat requests under SpecChatLive.
MaxLiveChats == 2

\* Rows of knowledge_items and chat requests under SpecAuth.
MaxAuthItems == 1
MaxAuthChats == 1

\* Rows of knowledge_items under SpecOwn.
MaxOwnItems == 2

\* Rows of knowledge_items under SpecTags.
MaxTagItems == 3

\* Rows of knowledge_items under SpecCreate.
MaxCreateItems == 1

\* Rows of knowledge_items under SpecPage.
MaxPageItems == 3

\* Rows of knowledge_items and files saved under SpecUpload.
MaxUploadItems == 2
MaxUploadFiles == 3

\* Rows of knowledge_items and files saved under SpecSave.
MaxSaveItems == 2
MaxSaveFiles == 2

\* Rows of knowledge_items under SpecPersist.
MaxPersistItems == 2

\* Rows of knowledge_items and chat requests under SpecList.
MaxListItems == 2
MaxListChats == 2

\* The requests that may be in flight at the same time.
Slots == {"r1", "r2"}

\* The e-mail addresses that log in.
Emails == {"e1", "e2"}

\* ---------------------------------------------------------------- text

\* Python's None for an optional text field (a reserved one-token text).
None == <<"None">>

NL == "\n"
Comma == ","
Space == " "
TitleLabel == "Title:"
SummaryLabel == "Summary:"
TagsLabel == "Tags:"

\* An optional JSON map: None, or the map with the given entries.
NoMetadata == [null |-> TRUE, entries |-> {}]

MetadataOf(entries) == [null |-> FALSE, entries |-> entries]

\* The default of KnowledgeItemCreate.metadata, and the `{}` of `or {}`.
EmptyMetadata == MetadataOf({})

\* item_data.metadata or {}
MetadataOrEmpty(metadata) ==
    IF metadata.null \/ metadata.entries = {} THEN EmptyMetadata ELSE metadata

\* bool(x) of an optional text: None and "" are falsy.
Truthy(x) == x # None /\ x # <<>>

\* tok in s
Contains(s, tok) == \E i \in 1..Len(s) : s[i] = tok

\* The positions of tok in s.
Positions(s, tok) == {i \in 1..Len(s) : s[i] = tok}

Min(S) == CHOOSE x \in S : \A y \in S : x <= y

\* s.split(tok)[0]: the text before the first tok (all of s without one).
SplitFirst(s, tok) ==
    IF Positions(s, tok) = {} THEN s
    ELSE SubSeq(s, 1, Min(Positions(s, tok)) - 1)

\* s after the first tok.
AfterFirst(s, tok) == SubSeq(s, Min(Positions(s, tok)) + 1, Len(s))

\* s.split(tok)[1]: the text between the first and the second tok.
SplitSecond(s, tok) == SplitFirst(AfterFirst(s, tok), tok)

IsBlank(tok) == tok \in {Space, NL}

RECURSIVE LStrip(_)
LStrip(s) == IF s # <<>> /\ IsBlank(Head(s)) THEN LStrip(Tail(s)) ELSE s

RECURSIVE RStrip(_)
RStrip(s) ==
    IF s # <<>> /\ IsBlank(s[Len(s)]) THEN RStrip(SubSeq(s, 1, Len(s) - 1)) ELSE s

\* s.strip()
Strip(s) == RStrip(LStrip(s))

\* s.split(label)[1].split("\n")[0].strip()
LabelValue(s, label) == Strip(SplitFirst(SplitSecond(s, label), NL))

\* s.split(","): the list of the texts between the commas.
RECURSIVE SplitComma(_)
SplitComma(s) ==
    IF ~Contains(s, Comma) THEN <<s>>
    ELSE <<SplitFirst(s, Comma)>> \o SplitComma(AfterFirst(s, Comma))

\* [tag.strip() for tag in parts if tag.strip()]
RECURSIVE StripNonEmpty(_)
StripNonEmpty(parts) ==
    IF parts = <<>> THEN <<>>
    ELSE (IF Strip(Head(parts)) # <<>> THEN <<Strip(Head(parts))>> ELSE <<>>)
         \o StripNonEmpty(Tail(parts))

\* s[:n]
Prefix(s, n) == SubSeq(s, 1, IF Len(s) < n THEN Len(s) ELSE n)

\* str.lower() of one character.
LowerTok(tok) == IF tok = "A" THEN "a" ELSE IF tok = "B" THEN "b" ELSE tok

Lower(s) == [i \in 1..Len(s) |-> LowerTok(s[i])]

\* p occurs in c as a contiguous run.
IsSubstring(p, c) ==
    \E i \in 0..(Len(c) - Len(p)) : SubSeq(c, i + 1, i + Len(p)) = p

\* content ILIKE '%pattern%' (no wildcard character occurs in the texts used);
\* a NULL content matches nothing.
ILike(content, pattern) ==
    content # None /\ IsSubstring(Lower(pattern), Lower(content))


\* A sequence without the elements that fail Keep, order kept.
RECURSIVE FilterSeq(_, _)
FilterSeq(s, keep) ==
    IF s = <<>> THEN <<>>
    ELSE (IF Head(s) \in keep THEN <<Head(s)>> ELSE <<>>) \o FilterSeq(Tail(s), keep)

\* A sequence without the later repetitions of an element.
RECURSIVE Unique(_)
Unique(s) ==
    IF s = <<>> THEN <<>>
    ELSE LET init == Unique(SubSeq(s, 1, Len(s) - 1))
             last == s[Len(s)]
         IN  IF \E i \in 1..Len(init) : init[i] = last THEN init
             ELSE Append(init, last)

Range(s) == {s[i] : i \in 1..Len(s)}

\* --------------------------------------------------------------- state

VARIABLES
    environment,  \* settings.environment
    openai_api_key, \* whether settings.openai_api_key is set
    agents,       \* the global agents instance: "none" or "ready"
    users,        \* table users: row i has id i
    items,        \* table knowledge_items, in commit order: row i has id i
    tags,         \* table tags, in commit order: row i has id i
    item_tags,    \* table knowledge_item_tags: rows <<item id, tag id>>
    convs,        \* table conversations: row i has id i
    messages,     \* table chat_messages, in commit order
    files,        \* the files written under settings.upload_dir
    reqs          \* the requests in flight or answered, one per slot

vars == <<environment, openai_api_key, agents, users, items, tags, item_tags,
          convs, messages, files, reqs>>

store == <<users, items, tags, item_tags, convs, messages, files>>

config == <<environment, openai_api_key>>

\* A slot that serves no request.
Idle == [op |-> "idle", pc |-> "idle"]

Init ==
    /\ environment \in {"development", "production", "staging"}
    /\ openai_api_key \in BOOLEAN
    /\ agents = "none"
    /\ users = <<>>
    /\ items = <<>>
    /\ tags = <<>>
    /\ item_tags = <<>>
    /\ convs = <<>>
    /\ messages = <<>>
    /\ files = <<>>
    /\ reqs = [s \in Slots |-> Idle]

\* A slot takes a new request when it serves none or has answered its last.
Free(s) == reqs[s].pc \in {"idle", "done"}

\* ------------------------------------------------------ authentication

\* create_access_token(data={"sub": user.id})
AccessToken(uid) == [kind |-> "signed", sub |-> uid]

\* A token jwt.decode rejects: not signed with the secret key, or malformed.
BadToken == [kind |-> "invalid", sub |-> 0]

\* A token signed for the user whose "exp" has passed: jwt.decode raises
\* ExpiredSignatureError, a JWTError.
ExpiredToken(uid) == [kind |-> "expired", sub |-> uid]

\* A token signed with the secret key whose payload has no "sub".
NoSubjectToken == [kind |-> "signed", sub |-> 0]

\* A variant that reads the payload without verifying the token.
DecodeUnverified(token) == [decoded |-> TRUE, sub |-> token.sub]

\* verify_token: the payload, or None (decoded = FALSE) on a JWTError.
verify_token(token) ==
    IF token.kind = "signed" THEN [decoded |-> TRUE, sub |-> token.sub]
    ELSE [decoded |-> FALSE, sub |-> 0]

\* The user the query `User.id == user_id` finds, or 0 for none.
UserById(user_id) == IF user_id \in 1..Len(users) THEN user_id ELSE 0

\* get_current_user: the user's id, or 0 when it raises 401.
get_current_user(token) ==
    LET payload == verify_token(token)
    IN  IF ~payload.decoded THEN 0
        ELSE IF payload.sub = 0 THEN 0
        ELSE UserById(payload.sub)

Unauthorized == [status |-> 401]

\* The tokens a client can present: those login has issued, and a bad one.
Tokens == {AccessToken(u) : u \in 1..Len(users)} \cup {BadToken}

\* Those, and the other tokens get_current_user refuses: expired ones, one
\* without subject, one signed for an id that no user has.
AllTokens ==
    Tokens \cup {ExpiredToken(u) : u \in 1..Len(users)}
           \cup {NoSubjectToken, AccessToken(Len(users) + 1)}

\* ---------------------------------------------------------------- login

UsersWithEmail(email) == {u \in 1..Len(users) : users[u].email = email}

\* A variant that inserts a user without looking for one with the e-mail.
LoginStartNoLookup(s, email) ==
    /\ Free(s)
    /\ LET base == [op |-> "login", email |-> email]
       IN  IF environment # "development"
           THEN reqs' = [reqs EXCEPT ![s] =
                    base @@ [pc |-> "done", resp |-> [status |-> 403]]]
           ELSE reqs' = [reqs EXCEPT ![s] =
                    base @@ [pc |-> "insert", resp |-> [status |-> 0]]]
    /\ UNCHANGED <<config, agents, store>>

\* A variant that rejects the demo login in production only.
LoginStartProductionOnly(s, email) ==
    /\ Free(s)
    /\ LET base == [op |-> "login", email |-> email]
       IN  IF environment = "production"
           THEN reqs' = [reqs EXCEPT ![s] =
                    base @@ [pc |-> "done", resp |-> [status |-> 403]]]
           ELSE IF UsersWithEmail(email) # {}
           THEN \E u \in UsersWithEmail(email) :
                reqs' = [reqs EXCEPT ![s] =
                    base @@ [pc |-> "done",
                             resp |-> [status |-> 200, user |-> u,
                                       token |-> AccessToken(u)]]]
           ELSE reqs' = [reqs EXCEPT ![s] =
                    base @@ [pc |-> "insert", resp |-> [status |-> 0]]]
    /\ UNCHANGED <<config, agents, store>>

\* login up to its query of the user: 403 outside development, a token
\* for the user found, or on to the insert.
LoginStart(s, email) ==
    /\ Free(s)
    /\ LET base == [op |-> "login", email |-> email]
       IN  IF environment # "development"
           THEN reqs' = [reqs EXCEPT ![s] =
                    base @@ [pc |-> "done", resp |-> [status |-> 403]]]
           ELSE IF UsersWithEmail(email) # {}
           THEN \E u \in UsersWithEmail(email) :
                reqs' = [reqs EXCEPT ![s] =
                    base @@ [pc |-> "done",
                             resp |-> [status |-> 200, user |-> u,
                                       token |-> AccessToken(u)]]]
           ELSE reqs' = [reqs EXCEPT ![s] =
                    base @@ [pc |-> "insert", resp |-> [status |-> 0]]]
    /\ UNCHANGED <<config, agents, store>>

\* A variant of the users table without the unique index on email.
LoginInsertNoUnique(s) ==
    /\ reqs[s].op = "login" /\ reqs[s].pc = "insert"
    /\ users' = Append(users, [email |-> reqs[s].email])
    /\ reqs' = [reqs EXCEPT ![s].pc = "done",
                  ![s].resp = [status |-> 200, user |-> Len(users) + 1,
                               token |-> AccessToken(Len(users) + 1)]]
    /\ UNCHANGED <<config, agents, items, tags, item_tags, convs, messages,
                   files>>

\* login's db.add(user); db.commit(): the unique index on email rejects a
\* second row for the e-mail, and the request ends in a server error.
LoginInsert(s) ==
    /\ reqs[s].op = "login" /\ reqs[s].pc = "insert"
    /\ IF UsersWithEmail(reqs[s].email) # {}
       THEN /\ reqs' = [reqs EXCEPT ![s].pc = "done",
                                    ![s].resp = [status |-> 500]]
            /\ UNCHANGED users
       ELSE /\ users' = Append(users, [email |-> reqs[s].email])
            /\ reqs' = [reqs EXCEPT ![s].pc = "done",
                          ![s].resp = [status |-> 200, user |-> Len(users) + 1,
                                       token |-> AccessToken(Len(users) + 1)]]
    /\ UNCHANGED <<config, agents, items, tags, item_tags, convs, messages,
                   files>>


\* ----------------------------------------------------- generation capability

\* get_agents(): the instance, built on first use when the API key is set;
\* building it may raise, which leaves it None for this call.
get_agents(initOk) ==
    IF agents = "none" /\ openai_api_key /\ initOk THEN "ready" ELSE agents

\* What `ag = get_agents(); if not ag: raise ...; ag.<agent>.run(prompt)`
\* gives the caller: the agents are unavailable, run raises, or it returns
\* a response with the given content.
RunAgent(ag, outcome, content) ==
    IF ag = "none" THEN [kind |-> "unavailable", content |-> <<>>]
    ELSE IF outcome = "raise" THEN [kind |-> "raised", content |-> <<>>]
    ELSE [kind |-> "ok", content |-> content]

\* No generation call made (yet).
NoGen == [kind |-> "none", content |-> <<>>]

GenOutcomes == {"ok", "raise"}

\* ------------------------------------------------------- serialization

\* item.tags as the relationship loads it from the association rows: the tags
\* of the item's rows, each once.
LoadedTagIds(rows, item) ==
    LET mine == FilterSeq(rows, {r \in Range(rows) : r[1] = item})
    IN  Unique([i \in 1..Len(mine) |-> mine[i][2]])

ItemTagIds(item) == LoadedTagIds(item_tags, item)

\* serialize_knowledge_item(item) of a committed row, given the tables.
SerializeRow(item_rows, tag_rows, rows, item) ==
    [id |-> item,
     title |-> item_rows[item].title,
     summary |-> item_rows[item].summary,
     content |-> item_rows[item].content,
     type |-> item_rows[item].type,
     metadata |-> item_rows[item].metadata,
     fileName |-> item_rows[item].file_name,
     isProcessed |-> item_rows[item].is_processed,
     tags |-> [i \in 1..Len(LoadedTagIds(rows, item))
                 |-> tag_rows[LoadedTagIds(rows, item)[i]].name]]

serialize_knowledge_item(item) == SerializeRow(items, tags, item_tags, item)

\* ------------------------------------------------------------ tag loop

\* A variant of the query without the filter on the owner.
TagsNamedOfAnyUser(name, uid) == {t \in 1..Len(tags) : tags[t].name = name}

\* db.query(Tag).filter(Tag.name == tag_name, Tag.user_id == user)
TagsNamed(name, uid) ==
    {t \in 1..Len(tags) : tags[t].name = name /\ tags[t].user_id = uid}

\* The association rows a flush writes for the tags appended to item.tags:
\* one per appended tag that the item's loaded collection did not hold.
FlushRows(item, pending) ==
    LET fresh == FilterSeq(pending, (1..Len(tags)) \ Range(ItemTagIds(item)))
    IN  [i \in 1..Len(fresh) |-> <<item, fresh[i]>>]

\* Where the tag loop goes after the tag at position i.
AfterTag(tagNames, i) == IF i < Len(tagNames) THEN "tagQuery" ELSE "tagCommit"

\* A variant that appends only the tags it creates: one found is skipped.
TagQuerySkipExisting(s) ==
    /\ reqs[s].op \in {"create", "upload"} /\ reqs[s].pc = "tagQuery"
    /\ LET loc == reqs[s].loc
           name == loc.tagNames[loc.i]
           existing == TagsNamed(name, reqs[s].user)
       IN  IF existing = {}
           THEN reqs' = [reqs EXCEPT ![s].pc = "tagInsert"]
           ELSE reqs' = [reqs EXCEPT
                    ![s].pc = AfterTag(loc.tagNames, loc.i),
                    ![s].loc.i = loc.i + 1]
    /\ UNCHANGED <<config, agents, store>>

\* A variant that creates a tag without looking for an existing one.
TagQueryNeverFinds(s) ==
    /\ reqs[s].op \in {"create", "upload"} /\ reqs[s].pc = "tagQuery"
    /\ reqs' = [reqs EXCEPT ![s].pc = "tagInsert"]
    /\ UNCHANGED <<config, agents, store>>

\* One turn of the tag loop up to its branch: the query for an existing tag of
\* the user with that name; one found is appended to db_item.tags.
TagQuery(s) ==
    /\ reqs[s].op \in {"create", "upload"} /\ reqs[s].pc = "tagQuery"
    /\ LET loc == reqs[s].loc
           name == loc.tagNames[loc.i]
           existing == TagsNamed(name, reqs[s].user)
       IN  IF existing = {}
           THEN reqs' = [reqs EXCEPT ![s].pc = "tagInsert"]
           ELSE \E t \in existing :
                reqs' = [reqs EXCEPT
                    ![s].pc = AfterTag(loc.tagNames, loc.i),
                    ![s].loc.i = loc.i + 1,
                    ![s].loc.pending = Append(loc.pending, t)]
    /\ UNCHANGED <<config, agents, store>>

\* The branch `if not existing_tag`: the new tag is added and committed (the
\* commit flushes the tags appended so far), then appended to db_item.tags.
TagInsert(s) ==
    /\ reqs[s].op \in {"create", "upload"} /\ reqs[s].pc = "tagInsert"
    /\ LET loc == reqs[s].loc
           name == loc.tagNames[loc.i]
       IN  /\ tags' = Append(tags, [name |-> name, user_id |-> reqs[s].user])
           /\ item_tags' = item_tags \o FlushRows(loc.item, loc.pending)
           /\ reqs' = [reqs EXCEPT
                    ![s].pc = AfterTag(loc.tagNames, loc.i),
                    ![s].loc.i = loc.i + 1,
                    ![s].loc.pending = <<Len(tags) + 1>>]
    /\ UNCHANGED <<config, agents, users, items, convs, messages, files>>

\* The db.commit() after the loop and the response.
TagCommit(s) ==
    /\ reqs[s].op \in {"create", "upload"} /\ reqs[s].pc = "tagCommit"
    /\ item_tags' = item_tags \o FlushRows(reqs[s].loc.item, reqs[s].loc.pending)
    /\ UNCHANGED <<config, agents, users, items, tags, convs, messages, files>>
    /\ reqs' = [reqs EXCEPT
            ![s].pc = "done",
            ![s].loc.pending = <<>>,
            ![s].resp = [status |-> 200,
                         body |-> SerializeRow(items', tags', item_tags',
                                              reqs[s].loc.item)]]

\* The response when an exception of the record store leaves the handler.
StoreFailed == [status |-> 500]

\* A variant in which the failure undoes the whole request, its item too.
TagFailItemUndone(s) ==
    /\ reqs[s].op \in {"create", "upload"}
    /\ reqs[s].pc \in {"tagQuery", "tagInsert", "tagCommit"}
    /\ items' = SubSeq(items, 1, reqs[s].loc.item - 1)
    /\ reqs' = [reqs EXCEPT ![s].pc = "done", ![s].loc.pending = <<>>,
                            ![s].resp = StoreFailed]
    /\ UNCHANGED <<config, agents, users, tags, item_tags, convs, messages,
                   files>>

\* The record store fails in the tag step: the query raises, or the commit
\* of a new tag or the commit after the loop raises and its transaction (the
\* new tag, the associations not yet flushed) is rolled back.  The exception
\* leaves the handler; what earlier commits wrote stays.
TagFail(s) ==
    /\ reqs[s].op \in {"create", "upload"}
    /\ reqs[s].pc \in {"tagQuery", "tagInsert", "tagCommit"}
    /\ reqs' = [reqs EXCEPT ![s].pc = "done", ![s].loc.pending = <<>>,
                            ![s].resp = StoreFailed]
    /\ UNCHANGED <<config, agents, store>>


\* ------------------------------------------------ create_knowledge_item

\* The locals of create_knowledge_item and upload_file.
Locals(title, summary, content, tagNames) ==
    [title |-> title, summary |-> summary, content |-> content,
     tagNames |-> tagNames, item |-> 0, i |-> 1, pending |-> <<>>,
     gen |-> NoGen, genCalls |-> 0]

\* create_knowledge_item up to the analysis: authentication, then the agent is
\* asked only `if item_data.content`.
CreateStart(s, token, title, summary, content, type, tagNames, metadata) ==
    /\ Free(s)
    /\ LET uid == get_current_user(token)
           base == [op |-> "create", user |-> uid, token |-> token,
                    in |-> [title |-> title, summary |-> summary,
                            content |-> content, type |-> type,
                            tags |-> tagNames, metadata |-> metadata],
                    loc |-> Locals(title, summary, content, tagNames)]
       IN  IF uid = 0
           THEN reqs' = [reqs EXCEPT ![s] =
                    base @@ [pc |-> "done", resp |-> Unauthorized]]
           ELSE reqs' = [reqs EXCEPT ![s] =
                    base @@ [pc |-> IF Truthy(content) THEN "gen" ELSE "insert",
                             resp |-> [status |-> 0]]]
    /\ UNCHANGED <<config, agents, store>>

\* A variant that takes the suggested summary whether or not one was supplied.
CreateSummarySuggested(summary, gen) ==
    IF gen.kind = "ok" /\ Contains(gen.content, SummaryLabel)
    THEN LabelValue(gen.content, SummaryLabel)
    ELSE summary

\* item_data.summary after the analysis: the text after "Summary:" when the
\* response has the label and no summary was supplied.
CreateSummary(summary, gen) ==
    IF gen.kind = "ok" /\ Contains(gen.content, SummaryLabel) /\ ~Truthy(summary)
    THEN LabelValue(gen.content, SummaryLabel)
    ELSE summary

\* The try block of create_knowledge_item: the call of the document
\* processor and the except that swallows its failure.
CreateGen(s, initOk, outcome, content) ==
    /\ reqs[s].op = "create" /\ reqs[s].pc = "gen"
    /\ agents' = get_agents(initOk)
    /\ LET gen == RunAgent(agents', outcome, content)
       IN  reqs' = [reqs EXCEPT
                ![s].pc = "insert",
                ![s].loc.gen = gen,
                ![s].loc.genCalls = @ + (IF gen.kind = "unavailable" THEN 0 ELSE 1),
                ![s].loc.summary = CreateSummary(@, gen)]
    /\ UNCHANGED <<config, store>>

\* KnowledgeItem(...) of create_knowledge_item.
CreateRow(uid, in, loc) ==
    [user_id |-> uid, title |-> in.title, summary |-> loc.summary,
     content |-> in.content, type |-> in.type, file_name |-> None,
     mime_type |-> None, metadata |-> MetadataOrEmpty(in.metadata),
     is_processed |-> TRUE]

\* db.add(db_item); db.commit(); then the tag loop `if item_data.tags`, else
\* the response.
CreateInsert(s) ==
    /\ reqs[s].op = "create" /\ reqs[s].pc = "insert"
    /\ items' = Append(items, CreateRow(reqs[s].user, reqs[s].in, reqs[s].loc))
    /\ UNCHANGED <<config, agents, users, tags, item_tags, convs, messages,
                   files>>
    /\ IF reqs[s].in.tags # <<>>
       THEN reqs' = [reqs EXCEPT ![s].pc = "tagQuery",
                                 ![s].loc.item = Len(items) + 1]
       ELSE reqs' = [reqs EXCEPT
                ![s].pc = "done",
                ![s].loc.item = Len(items) + 1,
                ![s].resp = [status |-> 200,
                             body |-> SerializeRow(items', tags', item_tags',
                                                  Len(items) + 1)]]

\* ------------------------------------------------------------ upload_file

\* summary when the response has no "Summary:" label.
SummaryProcessed == <<"File processed by AI agent">>

\* summary when the analysis failed.
SummaryUploaded == <<"File uploaded successfully">>

\* The tag of an upload without suggested tags.
UploadedTag == <<"uploaded">>

\* file.content_type.startswith('text/'), over the content types used.
IsTextType(content_type) == content_type \in {"text/plain", "text/markdown"}

\* A byte that is no UTF-8 text.
BadByte == "\\xff"

\* The file read back with encoding='utf-8', errors='ignore'.
Decode(bytes) ==
    FilterSeq(bytes, Range(bytes) \ {BadByte})

\* An exception of aiofiles.open, file.read, f.write, the close or f.read leaves
\* upload_file: FastAPI answers with a server error.
WriteFailed == [status |-> 500]

\* upload_file up to its first await inside the block that saves the file:
\* authentication, then aiofiles.open(file_path, 'wb') under a fresh name,
\* which creates the file, empty, or raises.
UploadStart(s, token, filename, content_type, bytes, opened) ==
    /\ Free(s)
    /\ LET uid == get_current_user(token)
           base == [op |-> "upload", user |-> uid, token |-> token,
                    in |-> [filename |-> filename, content_type |-> content_type,
                            bytes |-> bytes],
                    loc |-> Locals(filename, None, <<>>, <<>>)
                            @@ [file |-> 0, save |-> "pending"]]
       IN  IF uid = 0
           THEN /\ reqs' = [reqs EXCEPT ![s] =
                        base @@ [pc |-> "done", resp |-> Unauthorized]]
                /\ UNCHANGED files
           ELSE IF ~opened
           THEN /\ reqs' = [reqs EXCEPT ![s] =
                        [base EXCEPT !.loc.save = "open"]
                        @@ [pc |-> "done", resp |-> WriteFailed]]
                /\ UNCHANGED files
           ELSE /\ files' = Append(files, [name |-> filename, bytes |-> <<>>])
                /\ reqs' = [reqs EXCEPT ![s] =
                        [base EXCEPT !.loc.file = Len(files) + 1]
                        @@ [pc |-> "read", resp |-> [status |-> 0]]]
    /\ UNCHANGED <<config, agents, users, items, tags, item_tags, convs, messages>>

\* Where upload_file goes once the file is saved: the text of a text file is
\* read back.
AfterSave(content_type) ==
    IF content_type # "None" /\ IsTextType(content_type) THEN "readBack" ELSE "gen"

\* `content = await file.read()` inside the block that saves the file: the
\* content is read, or file.read() raises and the block is left through the
\* close of the file, which is still empty.
UploadRead(s, readOk) ==
    /\ reqs[s].op = "upload" /\ reqs[s].pc = "read"
    /\ reqs' = IF readOk
               THEN [reqs EXCEPT ![s].pc = "write"]
               ELSE [reqs EXCEPT ![s].pc = "close", ![s].loc.save = "read"]
    /\ UNCHANGED <<config, agents, store>>

\* `await f.write(content)`: the call returns, with `kept` leading bytes of
\* the content in the file and the rest in the writer's buffer, or it raises
\* with fewer than all the bytes in the file and the block is left through
\* the close. The request is still inside the block either way.
UploadWrite(s, writeOk, kept) ==
    /\ reqs[s].op = "upload" /\ reqs[s].pc = "write"
    /\ kept \in 0..Len(reqs[s].in.bytes)
    /\ writeOk \/ kept < Len(reqs[s].in.bytes)
    /\ files' = [files EXCEPT ![reqs[s].loc.file].bytes =
                                SubSeq(reqs[s].in.bytes, 1, kept)]
    /\ reqs' = IF writeOk
               THEN [reqs EXCEPT ![s].pc = "close"]
               ELSE [reqs EXCEPT ![s].pc = "close", ![s].loc.save = "write"]
    /\ UNCHANGED <<config, agents, users, items, tags, item_tags, convs, messages>>

\* A variant that goes on to the analysis although the file was not saved.
UploadCloseFailureIgnored(s, closeOk, kept) ==
    /\ reqs[s].op = "upload" /\ reqs[s].pc = "close"
    /\ kept \in Len(files[reqs[s].loc.file].bytes)..Len(reqs[s].in.bytes)
    /\ reqs[s].loc.save = "read" => kept = 0
    /\ (reqs[s].loc.save = "pending" /\ closeOk) => kept = Len(reqs[s].in.bytes)
    /\ files' = [files EXCEPT ![reqs[s].loc.file].bytes =
                                SubSeq(reqs[s].in.bytes, 1, kept)]
    /\ reqs' = [reqs EXCEPT
                ![s].pc = AfterSave(reqs[s].in.content_type),
                ![s].loc.save = IF reqs[s].loc.save # "pending" THEN @
                                ELSE IF closeOk THEN "ok" ELSE "close"]
    /\ UNCHANGED <<config, agents, users, items, tags, item_tags, convs, messages>>

\* The close of the file at the end of the `async with` block, which flushes
\* the writer's buffer: the file holds `kept` leading bytes of the content,
\* no fewer than before, and none if the content was never read. After a
\* write that returned and a close that succeeds the file holds the content
\* and upload_file goes on. After file.read() or f.write raised, or if the
\* close raises, the exception ends the request; nothing empties or removes
\* the file.
UploadClose(s, closeOk, kept) ==
    /\ reqs[s].op = "upload" /\ reqs[s].pc = "close"
    /\ kept \in Len(files[reqs[s].loc.file].bytes)..Len(reqs[s].in.bytes)
    /\ reqs[s].loc.save = "read" => kept = 0
    /\ (reqs[s].loc.save = "pending" /\ closeOk) => kept = Len(reqs[s].in.bytes)
    /\ files' = [files EXCEPT ![reqs[s].loc.file].bytes =
                                SubSeq(reqs[s].in.bytes, 1, kept)]
    /\ reqs' = IF reqs[s].loc.save = "pending" /\ closeOk
               THEN [reqs EXCEPT ![s].pc = AfterSave(reqs[s].in.content_type),
                                 ![s].loc.save = "ok"]
               ELSE [reqs EXCEPT ![s].pc = "done", ![s].resp = WriteFailed,
                                 ![s].loc.save = IF @ = "pending" THEN "close"
                                                 ELSE @]
    /\ UNCHANGED <<config, agents, users, items, tags, item_tags, convs, messages>>

\* The block under `if file.content_type.startswith('text/')`: the file is
\* opened again and its text read, or an exception ends the request.
UploadReadBack(s, readOk) ==
    /\ reqs[s].op = "upload" /\ reqs[s].pc = "readBack"
    /\ IF readOk
       THEN reqs' = [reqs EXCEPT
                ![s].pc = "gen",
                ![s].loc.content = Decode(files[reqs[s].loc.file].bytes)]
       ELSE reqs' = [reqs EXCEPT ![s].pc = "done", ![s].loc.save = "readBack",
                                ![s].resp = WriteFailed]
    /\ UNCHANGED <<config, agents, store>>

\* title after the try block.
UploadTitle(filename, gen) ==
    IF gen.kind = "ok" /\ Contains(gen.content, TitleLabel)
       /\ LabelValue(gen.content, TitleLabel) # <<>>
    THEN LabelValue(gen.content, TitleLabel)
    ELSE filename

\* A variant that reads the summary only from a response that has a title.
UploadSummaryNeedsTitle(gen) ==
    IF gen.kind # "ok" THEN SummaryUploaded
    ELSE IF Contains(gen.content, SummaryLabel) /\ Contains(gen.content, TitleLabel)
    THEN LabelValue(gen.content, SummaryLabel)
    ELSE SummaryProcessed

\* summary after the try block.
UploadSummary(gen) ==
    IF gen.kind # "ok" THEN SummaryUploaded
    ELSE IF Contains(gen.content, SummaryLabel)
    THEN LabelValue(gen.content, SummaryLabel)
    ELSE SummaryProcessed

\* A variant whose except block sets no default tag.
UploadTagsNoDefault(gen) ==
    IF gen.kind = "ok"
    THEN (IF Contains(gen.content, TagsLabel)
          THEN StripNonEmpty(SplitComma(LabelValue(gen.content, TagsLabel)))
          ELSE <<UploadedTag>>)
    ELSE <<>>

\* suggested_tags after the try block.
UploadTags(gen) ==
    IF gen.kind = "ok" /\ Contains(gen.content, TagsLabel)
    THEN StripNonEmpty(SplitComma(LabelValue(gen.content, TagsLabel)))
    ELSE <<UploadedTag>>

\* The try block of upload_file: the call of the document processor, the
\* parse of its response, and the except with the defaults.
UploadGen(s, initOk, outcome, content) ==
    /\ reqs[s].op = "upload" /\ reqs[s].pc = "gen"
    /\ agents' = get_agents(initOk)
    /\ LET gen == RunAgent(agents', outcome, content)
       IN  reqs' = [reqs EXCEPT
                ![s].pc = "insert",
                ![s].loc.gen = gen,
                ![s].loc.genCalls = @ + (IF gen.kind = "unavailable" THEN 0 ELSE 1),
                ![s].loc.title = UploadTitle(reqs[s].in.filename, gen),
                ![s].loc.summary = UploadSummary(gen),
                ![s].loc.tagNames = UploadTags(gen)]
    /\ UNCHANGED <<config, store>>

\* A variant that marks the row processed only when the analysis succeeded.
UploadProcessedOnSuccess(gen) == gen.kind = "ok"

\* is_processed of the row upload_file creates.
UploadProcessed(gen) == TRUE

\* KnowledgeItem(...) of upload_file.
UploadRow(uid, in, loc) ==
    [user_id |-> uid, title |-> loc.title, summary |-> loc.summary,
     content |-> loc.content, type |-> "document", file_name |-> in.filename,
     mime_type |-> in.content_type,
     metadata |-> MetadataOf({<<"original_filename", in.filename>>}),
     is_processed |-> UploadProcessed(loc.gen)]

\* db.add(db_item); db.commit(); then the tag loop over suggested_tags.
UploadInsert(s) ==
    /\ reqs[s].op = "upload" /\ reqs[s].pc = "insert"
    /\ items' = Append(items, UploadRow(reqs[s].user, reqs[s].in, reqs[s].loc))
    /\ reqs' = [reqs EXCEPT
            ![s].pc = IF reqs[s].loc.tagNames # <<>> THEN "tagQuery" ELSE "tagCommit",
            ![s].loc.item = Len(items) + 1]
    /\ UNCHANGED <<config, agents, users, tags, item_tags, convs, messages,
                   files>>

\* ----------------------------------------------------- get_knowledge_item

NotFound == [status |-> 404, detail |-> "Knowledge item not found"]

\* A variant that looks the item up by id alone.
AnyItem(item_id, uid) == item_id \in 1..Len(items)

\* db.query(KnowledgeItem).filter(id == item_id, user_id == current_user.id)
OwnItem(item_id, uid) ==
    item_id \in 1..Len(items) /\ items[item_id].user_id = uid

\* get_knowledge_item, whole.
GetItem(s, token, item_id) ==
    /\ Free(s)
    /\ LET uid == get_current_user(token)
           base == [op |-> "get", user |-> uid, token |-> token,
                    in |-> [item_id |-> item_id], pc |-> "done"]
       IN  reqs' = [reqs EXCEPT ![s] = base @@
                [resp |-> IF uid = 0 THEN Unauthorized
                          ELSE IF ~OwnItem(item_id, uid) THEN NotFound
                          ELSE [status |-> 200,
                                body |-> serialize_knowledge_item(item_id)]]]
    /\ UNCHANGED <<config, agents, store>>


\* ---------------------------------------------------------- listings

\* KnowledgeItem.created_at, default func.now(): the store's clock when the
\* transaction of the insert began.  Requests that run one after another get
\* increasing values, in the order of their rows; it is read only under
\* specifications that run one request at a time.
ItemCreatedAt == [item \in 1..Len(items) |-> item]

\* Conversation.updated_at, set as created_at is: chat never updates the row.
ConversationUpdatedAt == [conv \in 1..Len(convs) |-> conv]

\* A variant that orders oldest first.
RECURSIVE OldestFirst(_, _)
OldestFirst(S, at) ==
    IF S = {} THEN <<>>
    ELSE LET earliest == CHOOSE x \in S : \A y \in S : at[x] <= at[y]
         IN  <<earliest>> \o OldestFirst(S \ {earliest}, at)

\* .order_by(<column>.desc()) over the rows S, the column's values given by
\* row: latest value first.
RECURSIVE NewestFirst(_, _)
NewestFirst(S, at) ==
    IF S = {} THEN <<>>
    ELSE LET latest == CHOOSE x \in S : \A y \in S : at[y] <= at[x]
         IN  <<latest>> \o NewestFirst(S \ {latest}, at)

\* .offset(offset).limit(limit) of an ordered result.
Page(rows, offset, limit) ==
    SubSeq(rows, offset + 1,
           IF offset + limit < Len(rows) THEN offset + limit ELSE Len(rows))

\* db.query(KnowledgeItem).filter(KnowledgeItem.user_id == current_user.id)
ItemsOf(uid) == {i \in 1..Len(items) : items[i].user_id = uid}

\* get_knowledge_items, whole.
ListItems(s, token, limit, offset) ==
    /\ Free(s)
    /\ LET uid == get_current_user(token)
           base == [op |-> "list-items", user |-> uid, token |-> token,
                    in |-> [limit |-> limit, offset |-> offset], pc |-> "done"]
           rows == Page(NewestFirst(ItemsOf(uid), ItemCreatedAt), offset, limit)
       IN  reqs' = [reqs EXCEPT ![s] = base @@
                [resp |-> IF uid = 0 THEN Unauthorized
                          ELSE [status |-> 200,
                                body |-> [k \in 1..Len(rows) |->
                                            serialize_knowledge_item(rows[k])]]]]
    /\ UNCHANGED <<config, agents, store>>

\* get_current_user_info, whole.
UserInfo(s, token) ==
    /\ Free(s)
    /\ LET uid == get_current_user(token)
           base == [op |-> "user", user |-> uid, token |-> token, pc |-> "done"]
       IN  reqs' = [reqs EXCEPT ![s] = base @@
                [resp |-> IF uid = 0 THEN Unauthorized
                          ELSE [status |-> 200,
                                body |-> [id |-> uid, email |-> users[uid].email]]]]
    /\ UNCHANGED <<config, agents, store>>

\* ------------------------------------------------------------------ chat

\* chat_request.message[:50]
MessagePrefixLen == 50

\* .limit(5)
SourceLimit == 5

\* The reply when the conversation agent fails.
Apology ==
    <<"I'm sorry, I'm having trouble processing your request right now. Please try again.">>

\* A variant of the lookup without the filter on the owner.
ConversationOfAnyUser(conversation_id, uid) ==
    IF conversation_id # 0 /\ conversation_id \in 1..Len(convs)
    THEN conversation_id
    ELSE 0

\* db.query(Conversation).filter(id == conversation_id, user_id == user).first()
\* under `if chat_request.conversation_id`: the conversation, or 0 for None.
OwnConversation(conversation_id, uid) ==
    IF conversation_id # 0 /\ conversation_id \in 1..Len(convs)
       /\ convs[conversation_id].user_id = uid
    THEN conversation_id
    ELSE 0

\* chat up to the user message: authentication, then the conversation is
\* found or a new one is committed.
ChatStart(s, token, message, conversation_id, use_knowledge_base) ==
    /\ Free(s)
    /\ LET uid == get_current_user(token)
           found == OwnConversation(conversation_id, uid)
           base == [op |-> "chat", user |-> uid, token |-> token,
                    in |-> [message |-> message,
                            conversation_id |-> conversation_id,
                            use_knowledge_base |-> use_knowledge_base]]
           loc == [conversation |-> 0, user_message |-> 0,
                   assistant_message |-> 0, relevant_items |-> <<>>,
                   queried |-> FALSE, gen |-> NoGen, genCalls |-> 0,
                   assistant_content |-> <<>>]
       IN  IF uid = 0
           THEN /\ reqs' = [reqs EXCEPT ![s] =
                        base @@ [pc |-> "done", loc |-> loc, resp |-> Unauthorized]]
                /\ UNCHANGED convs
           ELSE IF found # 0
           THEN /\ reqs' = [reqs EXCEPT ![s] =
                        base @@ [pc |-> "userMessage",
                                 loc |-> [loc EXCEPT !.conversation = found],
                                 resp |-> [status |-> 0]]]
                /\ UNCHANGED convs
           ELSE /\ convs' = Append(convs, [user_id |-> uid])
                /\ reqs' = [reqs EXCEPT ![s] =
                        base @@ [pc |-> "userMessage",
                                 loc |-> [loc EXCEPT !.conversation = Len(convs) + 1],
                                 resp |-> [status |-> 0]]]
    /\ UNCHANGED <<config, agents, users, items, tags, item_tags, messages, files>>

\* A variant that searches the knowledge base whatever the request asks.
AlwaysSearch(use_knowledge_base) == "search"

\* Where chat goes after the user message: `if chat_request.use_knowledge_base`.
AfterUserMessage(use_knowledge_base) ==
    IF use_knowledge_base THEN "search" ELSE "generate"

\* A variant that adds the user message to the session without committing it
\* before the agent is called.
ChatUserMessageUncommitted(s) ==
    /\ reqs[s].op = "chat" /\ reqs[s].pc = "userMessage"
    /\ reqs' = [reqs EXCEPT
            ![s].pc = AfterUserMessage(reqs[s].in.use_knowledge_base)]
    /\ UNCHANGED <<config, agents, store>>

\* The user ChatMessage is added and committed.
ChatUserMessage(s) ==
    /\ reqs[s].op = "chat" /\ reqs[s].pc = "userMessage"
    /\ messages' = Append(messages,
            [conversation_id |-> reqs[s].loc.conversation, role |-> "user",
             content |-> reqs[s].in.message, sources |-> <<>>,
             agent_used |-> "None"])
    /\ reqs' = [reqs EXCEPT
            ![s].pc = AfterUserMessage(reqs[s].in.use_knowledge_base),
            ![s].loc.user_message = Len(messages) + 1]
    /\ UNCHANGED <<config, agents, users, items, tags, item_tags, convs, files>>

\* A variant of the query without the filter on the owner.
MatchingItemsOfAnyUser(uid, message) ==
    {i \in 1..Len(items) : ILike(items[i].content, Prefix(message, MessagePrefixLen))}

\* The rows the knowledge base query may match: the user's own items whose
\* content holds the start of the message, whatever the case.
MatchingItems(uid, message) ==
    {i \in 1..Len(items) :
        /\ items[i].user_id = uid
        /\ ILike(items[i].content, Prefix(message, MessagePrefixLen))}

\* The results .limit(5).all() may give: the query has no ORDER BY, so any
\* SourceLimit of the matching rows (all of them when there are fewer).
LimitedSets(matching) ==
    {S \in SUBSET matching :
        Cardinality(S) = IF Cardinality(matching) < SourceLimit
                         THEN Cardinality(matching) ELSE SourceLimit}

\* One entry of relevant_items.
SourceOf(i) ==
    [id |-> i, title |-> items[i].title, summary |-> items[i].summary,
     type |-> items[i].type]

\* relevant_items for the rows the query gave, in table order.
RelevantItems(S) ==
    LET ids == FilterSeq([i \in 1..Len(items) |-> i], S)
    IN  [k \in 1..Len(ids) |-> SourceOf(ids[k])]

\* The block `if chat_request.use_knowledge_base`.
ChatSearch(s) ==
    /\ reqs[s].op = "chat" /\ reqs[s].pc = "search"
    /\ \E S \in LimitedSets(MatchingItems(reqs[s].user, reqs[s].in.message)) :
         reqs' = [reqs EXCEPT ![s].pc = "generate",
                              ![s].loc.queried = TRUE,
                              ![s].loc.relevant_items = RelevantItems(S)]
    /\ UNCHANGED <<config, agents, store>>

\* assistant_content after the try block.
AssistantContent(gen) == IF gen.kind = "ok" THEN gen.content ELSE Apology

\* A variant that calls the conversation agent once more after a call that
\* raised.
ChatGenerateRetry(s, initOk, outcome, content) ==
    /\ reqs[s].op = "chat" /\ reqs[s].pc = "generate"
    /\ agents' = get_agents(initOk)
    /\ LET gen == RunAgent(agents', outcome, content)
       IN  reqs' = [reqs EXCEPT
                ![s].pc = IF gen.kind = "raised" /\ reqs[s].loc.genCalls = 0
                          THEN "generate" ELSE "assistantMessage",
                ![s].loc.gen = gen,
                ![s].loc.genCalls = @ + (IF gen.kind = "unavailable" THEN 0 ELSE 1),
                ![s].loc.assistant_content = AssistantContent(gen)]
    /\ UNCHANGED <<config, store>>

\* The try block of chat: the call of the conversation agent and the except
\* with the apology.
ChatGenerate(s, initOk, outcome, content) ==
    /\ reqs[s].op = "chat" /\ reqs[s].pc = "generate"
    /\ agents' = get_agents(initOk)
    /\ LET gen == RunAgent(agents', outcome, content)
       IN  reqs' = [reqs EXCEPT
                ![s].pc = "assistantMessage",
                ![s].loc.gen = gen,
                ![s].loc.genCalls = @ + (IF gen.kind = "unavailable" THEN 0 ELSE 1),
                ![s].loc.assistant_content = AssistantContent(gen)]
    /\ UNCHANGED <<config, store>>

\* A variant that stores the assistant message under the conversation id the
\* request sent, when it sent one.
ChatAssistantMessageRequestedId(s) ==
    /\ reqs[s].op = "chat" /\ reqs[s].pc = "assistantMessage"
    /\ messages' = Append(messages,
            [conversation_id |-> IF reqs[s].in.conversation_id # 0
                                 THEN reqs[s].in.conversation_id
                                 ELSE reqs[s].loc.conversation,
             role |-> "assistant",
             content |-> reqs[s].loc.assistant_content,
             sources |-> reqs[s].loc.relevant_items,
             agent_used |-> "ConversationAgent"])
    /\ reqs' = [reqs EXCEPT
            ![s].pc = "done",
            ![s].loc.assistant_message = Len(messages) + 1,
            ![s].resp = [status |-> 200,
                         message |-> reqs[s].loc.assistant_content,
                         conversation_id |-> reqs[s].loc.conversation,
                         sources |-> reqs[s].loc.relevant_items,
                         agent_used |-> "ConversationAgent"]]
    /\ UNCHANGED <<config, agents, users, items, tags, item_tags, convs, files>>

\* A variant that stores the assistant message without its sources.
ChatAssistantMessageNoSources(s) ==
    /\ reqs[s].op = "chat" /\ reqs[s].pc = "assistantMessage"
    /\ messages' = Append(messages,
            [conversation_id |-> reqs[s].loc.conversation, role |-> "assistant",
             content |-> reqs[s].loc.assistant_content,
             sources |-> <<>>,
             agent_used |-> "ConversationAgent"])
    /\ reqs' = [reqs EXCEPT
            ![s].pc = "done",
            ![s].loc.assistant_message = Len(messages) + 1,
            ![s].resp = [status |-> 200,
                         message |-> reqs[s].loc.assistant_content,
                         conversation_id |-> reqs[s].loc.conversation,
                         sources |-> reqs[s].loc.relevant_items,
                         agent_used |-> "ConversationAgent"]]
    /\ UNCHANGED <<config, agents, users, items, tags, item_tags, convs, files>>

\* The assistant ChatMessage is added and committed, and the ChatResponse
\* returned.
ChatAssistantMessage(s) ==
    /\ reqs[s].op = "chat" /\ reqs[s].pc = "assistantMessage"
    /\ messages' = Append(messages,
            [conversation_id |-> reqs[s].loc.conversation, role |-> "assistant",
             content |-> reqs[s].loc.assistant_content,
             sources |-> reqs[s].loc.relevant_items,
             agent_used |-> "ConversationAgent"])
    /\ reqs' = [reqs EXCEPT
            ![s].pc = "done",
            ![s].loc.assistant_message = Len(messages) + 1,
            ![s].resp = [status |-> 200,
                         message |-> reqs[s].loc.assistant_content,
                         conversation_id |-> reqs[s].loc.conversation,
                         sources |-> reqs[s].loc.relevant_items,
                         agent_used |-> "ConversationAgent"]]
    /\ UNCHANGED <<config, agents, users, items, tags, item_tags, convs, files>>

\* ------------------------------------------- conversation and tag listings

\* db.query(Conversation).filter(Conversation.user_id == current_user.id)
ConversationsOf(uid) == {c \in 1..Len(convs) : convs[c].user_id = uid}

\* db.query(ChatMessage).filter(conversation_id == id).order_by(created_at.asc())
\* and conversation.messages: the conversation's messages, in commit order.
MessagesOf(conversation_id) ==
    FilterSeq([m \in 1..Len(messages) |-> m],
              {m \in 1..Len(messages) :
                    messages[m].conversation_id = conversation_id})

\* serialize_conversation(conv)
serialize_conversation(conv) ==
    [id |-> conv, message_count |-> Len(MessagesOf(conv))]

\* serialize_chat_message(msg)
serialize_chat_message(msg) ==
    [id |-> msg, role |-> messages[msg].role, content |-> messages[msg].content,
     metadata |-> [sources |-> messages[msg].sources,
                   agent_used |-> messages[msg].agent_used]]

\* get_conversations, whole.
ListConversations(s, token) ==
    /\ Free(s)
    /\ LET uid == get_current_user(token)
           base == [op |-> "list-conversations", user |-> uid, token |-> token,
                    pc |-> "done"]
           rows == NewestFirst(ConversationsOf(uid), ConversationUpdatedAt)
       IN  reqs' = [reqs EXCEPT ![s] = base @@
                [resp |-> IF uid = 0 THEN Unauthorized
                          ELSE [status |-> 200,
                                body |-> [k \in 1..Len(rows) |->
                                            serialize_conversation(rows[k])]]]]
    /\ UNCHANGED <<config, agents, store>>

ConversationNotFound == [status |-> 404, detail |-> "Conversation not found"]

\* A variant of the lookup without the filter on the owner.
AnyConversation(conversation_id, uid) == conversation_id \in 1..Len(convs)

\* db.query(Conversation).filter(id == conversation_id, user_id == user)
\* finds a row.
ConversationOwned(conversation_id, uid) ==
    conversation_id \in 1..Len(convs) /\ convs[conversation_id].user_id = uid

\* get_conversation_messages, whole.
ListMessages(s, token, conversation_id) ==
    /\ Free(s)
    /\ LET uid == get_current_user(token)
           base == [op |-> "list-messages", user |-> uid, token |-> token,
                    in |-> [conversation_id |-> conversation_id], pc |-> "done"]
           rows == MessagesOf(conversation_id)
       IN  reqs' = [reqs EXCEPT ![s] = base @@
                [resp |-> IF uid = 0 THEN Unauthorized
                          ELSE IF ~ConversationOwned(conversation_id, uid)
                          THEN ConversationNotFound
                          ELSE [status |-> 200,
                                body |-> [k \in 1..Len(rows) |->
                                            serialize_chat_message(rows[k])]]]]
    /\ UNCHANGED <<config, agents, store>>

\* db.query(Tag).filter(Tag.user_id == current_user.id)
TagsOf(uid) == {t \in 1..Len(tags) : tags[t].user_id = uid}

\* The orders in which a query without ORDER BY may give the rows S.
Orders(S) == {o \in [1..Cardinality(S) -> S] : Range(o) = S}

\* get_tags, whole.
ListTags(s, token) ==
    /\ Free(s)
    /\ LET uid == get_current_user(token)
           base == [op |-> "list-tags", user |-> uid, token |-> token,
                    pc |-> "done"]
       IN  \E rows \in Orders(TagsOf(uid)) :
             reqs' = [reqs EXCEPT ![s] = base @@
                [resp |-> IF uid = 0 THEN Unauthorized
                          ELSE [status |-> 200,
                                body |-> [k \in 1..Len(rows) |->
                                            [id |-> rows[k],
                                             name |-> tags[rows[k]].name]]]]]
    /\ UNCHANGED <<config, agents, store>>

\* --------------------------------------------- direct agent endpoints

\* The agent behind each direct endpoint.
AgentName(op) == IF op = "process-document" THEN "DocumentProcessor" ELSE "SearchAgent"

\* The response of a direct endpoint without agents.
AgentUnavailable(op) ==
    IF op = "process-document" THEN <<"AI processing unavailable">>
    ELSE <<"AI search unavailable">>

\* agent_process_document / agent_search up to get_agents(): authentication.
AgentStart(s, token, op) ==
    /\ Free(s)
    /\ LET uid == get_current_user(token)
           base == [op |-> op, user |-> uid, token |-> token,
                    loc |-> [gen |-> NoGen, genCalls |-> 0]]
       IN  IF uid = 0
           THEN reqs' = [reqs EXCEPT ![s] =
                    base @@ [pc |-> "done", resp |-> Unauthorized]]
           ELSE reqs' = [reqs EXCEPT ![s] =
                    base @@ [pc |-> "run", resp |-> [status |-> 0]]]
    /\ UNCHANGED <<config, agents, store>>

\* What a direct endpoint answers: the stand-in text without agents, the
\* response's content, or HTTPException(500) when run raises.
AgentResponse(op, gen) ==
    IF gen.kind = "unavailable"
    THEN [status |-> 200, response |-> AgentUnavailable(op), agent |-> AgentName(op)]
    ELSE IF gen.kind = "ok"
    THEN [status |-> 200, response |-> gen.content, agent |-> AgentName(op)]
    ELSE [status |-> 500]

\* agent_process_document / agent_search from get_agents() on.
AgentRun(s, initOk, outcome, content) ==
    /\ reqs[s].op \in {"process-document", "search"} /\ reqs[s].pc = "run"
    /\ agents' = get_agents(initOk)
    /\ LET gen == RunAgent(agents', outcome, content)
       IN  reqs' = [reqs EXCEPT
                ![s].pc = "done",
                ![s].loc.gen = gen,
                ![s].loc.genCalls = @ + (IF gen.kind = "unavailable" THEN 0 ELSE 1),
                ![s].resp = AgentResponse(reqs[s].op, gen)]
    /\ UNCHANGED <<config, store>>

\* ---------------------------------------------------------- health_check

\* health_check, whole: no credentials are asked for; get_agents() builds the
\* agents on first use.
HealthCheck(s, initOk) ==
    /\ Free(s)
    /\ agents' = get_agents(initOk)
    /\ reqs' = [reqs EXCEPT ![s] =
            [op |-> "health", pc |-> "done",
             resp |-> [status |-> 200, agents_available |-> agents' = "ready"]]]
    /\ UNCHANGED <<config, store>>

\* ------------------------------------------------------------- inputs

\* Responses of the document processor: every label with a value; no label
\* at all.
Responses ==
    {<<TitleLabel, Space, "x", NL, SummaryLabel, Space, "y", NL,
       TagsLabel, Space, "a", Comma, Space, "b">>,
     <<"z">>}

Titles == {<<"t">>}
Types == {"text"}
Summaries == {None, <<"s">>}
Contents == {None, <<"a", "B">>}
TagLists == {<<>>, <<<<"a">>>>, <<<<"a">>, <<"b">>>>}
FileNames == {<<"f">>}
ContentTypes == {"text/plain", "image/png"}
FileBytes == {<<"a", BadByte>>}
ChatMessages == {<<"A">>}

\* The item ids asked for: those in the table and one that is not.
ItemIds == 1..(Len(items) + 1)

\* The conversation ids sent: none (0), those in the table, one that is not.
ConversationIds == 0..(Len(convs) + 1)

\* The requests of the given handlers that have yet to commit their row.
Pending(ops, pcs) ==
    Cardinality({s \in Slots : reqs[s].op \in ops /\ reqs[s].pc \in pcs})

\* Room for one more knowledge item below the bound.
ItemRoom(max) ==
    Len(items)
    + Pending({"create", "upload"},
              {"read", "write", "close", "readBack", "gen", "insert"}) < max

\* Room for one more chat request below the bound: each adds two messages.
ChatRoom(max) ==
    Len(messages)
    + 2 * Pending({"chat"}, {"userMessage"})
    + Pending({"chat"}, {"search", "generate", "assistantMessage"}) < 2 * max

\* ---------------------------------------------------------- behaviours

\* The steps of each handler for the requests of the slots S, its inputs drawn
\* from the given sets.

LoginOn(S, emails) ==
    \/ \E s \in S, email \in emails : LoginStart(s, email)
    \/ \E s \in S : LoginInsert(s)

TagLoopOn(S) ==
    \/ \E s \in S : TagQuery(s)
    \/ \E s \in S : TagInsert(s)
    \/ \E s \in S : TagCommit(s)

CreateOn(S, max, summaries, contents, tagLists, responses) ==
    \/ /\ ItemRoom(max)
       /\ \E s \in S, token \in Tokens, title \in Titles, summary \in summaries,
             content \in contents, type \in Types, tagNames \in tagLists :
               CreateStart(s, token, title, summary, content, type, tagNames,
                           EmptyMetadata)
    \/ \E s \in S, initOk \in BOOLEAN, outcome \in GenOutcomes,
          content \in responses : CreateGen(s, initOk, outcome, content)
    \/ \E s \in S : CreateInsert(s)

UploadOn(S, max, contentTypes, responses) ==
    \/ /\ ItemRoom(max)
       /\ \E s \in S, token \in Tokens, filename \in FileNames,
             content_type \in contentTypes, bytes \in FileBytes :
               UploadStart(s, token, filename, content_type, bytes, TRUE)
    \/ \E s \in S : UploadRead(s, TRUE)
    \/ \E s \in S, bytes \in FileBytes :
            \E kept \in 0..Len(bytes) : UploadWrite(s, TRUE, kept)
    \/ \E s \in S, bytes \in FileBytes : UploadClose(s, TRUE, Len(bytes))
    \/ \E s \in S : UploadReadBack(s, TRUE)
    \/ \E s \in S, initOk \in BOOLEAN, outcome \in GenOutcomes,
          content \in responses : UploadGen(s, initOk, outcome, content)
    \/ \E s \in S : UploadInsert(s)

GetOn(S) ==
    \E s \in S, token \in Tokens, item_id \in ItemIds : GetItem(s, token, item_id)

ChatOn(S, max, useKnowledgeBase, responses) ==
    \/ /\ ChatRoom(max)
       /\ \E s \in S, token \in Tokens, message \in ChatMessages,
             conversation_id \in ConversationIds,
             use_knowledge_base \in useKnowledgeBase :
               ChatStart(s, token, message, conversation_id, use_knowledge_base)
    \/ \E s \in S : ChatUserMessage(s)
    \/ \E s \in S : ChatSearch(s)
    \/ \E s \in S, initOk \in BOOLEAN, outcome \in GenOutcomes,
          content \in responses : ChatGenerate(s, initOk, outcome, content)
    \/ \E s \in S : ChatAssistantMessage(s)

\* The direct agent endpoints.
DirectAgentOps == {"process-document", "search"}

AgentOn(S, responses) ==
    \/ \E s \in S, token \in Tokens, op \in DirectAgentOps :
            AgentStart(s, token, op)
    \/ \E s \in S, initOk \in BOOLEAN, outcome \in GenOutcomes,
          content \in responses : AgentRun(s, initOk, outcome, content)

\* One request at a time.
One == {"r1"}

\* A response without labels.
Plain == {<<"z">>}

\* Ingestion and retrieval of items, one request after another.
Next ==
    \/ LoginOn(One, Emails)
    \/ CreateOn(One, MaxItems, {None}, Contents, TagLists, Responses)
    \/ UploadOn(One, MaxItems, {"text/plain"}, Responses)
    \/ TagLoopOn(One)
    \/ GetOn(One)
    \/ \E initOk \in BOOLEAN : HealthCheck("r1", initOk)

Spec == Init /\ [][Next]_vars

\* Overlapping ingestion requests.
NextRace ==
    \/ LoginOn(One, Emails)
    \/ CreateOn(Slots, MaxRaceItems, {None}, {<<"a", "B">>}, {<<<<"uploaded">>>>}, Plain)
    \/ UploadOn(Slots, MaxRaceItems, {"text/plain"}, Plain)
    \/ TagLoopOn(Slots)
    \/ \E initOk \in BOOLEAN : HealthCheck("r1", initOk)

SpecRace == Init /\ [][NextRace]_vars

\* Contents of which one holds the chat message and one does not.
ChatContents == {<<"a", "B">>, <<"c">>}

\* Conversations and the direct agent endpoints, one request after another.
NextChat ==
    \/ LoginOn(One, Emails)
    \/ CreateOn(One, MaxChatItems, {None}, ChatContents, {<<>>}, Plain)
    \/ ChatOn(One, MaxChats, BOOLEAN, Plain)
    \/ AgentOn(One, Plain)
    \/ \E initOk \in BOOLEAN : HealthCheck("r1", initOk)

SpecChat == Init /\ [][NextChat]_vars

\* Overlapping conversations.
NextChatRace ==
    \/ LoginOn(One, {"e1"})
    \/ ChatOn(Slots, MaxRaceChats, BOOLEAN, Plain)
    \/ \E initOk \in BOOLEAN : HealthCheck("r1", initOk)

SpecChatRace == Init /\ [][NextChatRace]_vars

\* The knowledge base search over many items, one request after another, the
\* last of them a chat.
NextSearch ==
    \/ LoginOn(One, Emails)
    \/ CreateOn(One, MaxSearchItems, {None}, {<<"a", "B">>}, {<<>>}, Plain)
    \/ ChatOn(One, 1, {TRUE}, Plain)
    \/ \E initOk \in BOOLEAN : HealthCheck("r1", initOk)

SpecSearch == Init /\ [][NextSearch]_vars

\* Conversations of one user, one request after another.
NextChatLive ==
    \/ LoginOn(One, {"e1"})
    \/ ChatOn(One, MaxLiveChats, BOOLEAN, Plain)
    \/ \E initOk \in BOOLEAN : HealthCheck("r1", initOk)

\* A chat request's steps on the record store are blocking calls that return:
\* each is taken once it is due.  The call of the conversation agent has no
\* timeout, so nothing makes it return.
ChatStoreFairness ==
    \A s \in One :
        /\ WF_vars(ChatUserMessage(s))
        /\ WF_vars(ChatSearch(s))
        /\ WF_vars(ChatAssistantMessage(s))

SpecChatLive == Init /\ [][NextChatLive]_vars /\ ChatStoreFairness

\* Every authenticated endpoint, one request after another, with the tokens
\* get_current_user accepts and those it refuses.
NextAuth ==
    \/ LoginOn(One, {"e1"})
    \/ /\ ItemRoom(MaxAuthItems)
       /\ \E token \in AllTokens :
            CreateStart("r1", token, <<"t">>, None, <<"a", "B">>, "text",
                        <<<<"a">>>>, EmptyMetadata)
    \/ \E initOk \in BOOLEAN, outcome \in GenOutcomes :
            CreateGen("r1", initOk, outcome, <<"z">>)
    \/ CreateInsert("r1")
    \/ /\ ItemRoom(MaxAuthItems)
       /\ \E token \in AllTokens :
            UploadStart("r1", token, <<"f">>, "text/plain", <<"a", BadByte>>, TRUE)
    \/ UploadRead("r1", TRUE)
    \/ \E bytes \in FileBytes :
            \E kept \in 0..Len(bytes) : UploadWrite("r1", TRUE, kept)
    \/ \E bytes \in FileBytes : UploadClose("r1", TRUE, Len(bytes))
    \/ UploadReadBack("r1", TRUE)
    \/ \E initOk \in BOOLEAN, outcome \in GenOutcomes :
            UploadGen("r1", initOk, outcome, <<"z">>)
    \/ UploadInsert("r1")
    \/ TagLoopOn(One)
    \/ \E token \in AllTokens, item_id \in ItemIds : GetItem("r1", token, item_id)
    \/ \E token \in AllTokens : ListItems("r1", token, 50, 0)
    \/ \E token \in AllTokens : UserInfo("r1", token)
    \/ /\ ChatRoom(MaxAuthChats)
       /\ \E token \in AllTokens, conversation_id \in ConversationIds :
            ChatStart("r1", token, <<"A">>, conversation_id, TRUE)
    \/ ChatUserMessage("r1")
    \/ ChatSearch("r1")
    \/ \E initOk \in BOOLEAN, outcome \in GenOutcomes :
            ChatGenerate("r1", initOk, outcome, <<"z">>)
    \/ ChatAssistantMessage("r1")
    \/ \E token \in AllTokens : ListConversations("r1", token)
    \/ \E token \in AllTokens, conversation_id \in 1..(Len(convs) + 1) :
            ListMessages("r1", token, conversation_id)
    \/ \E token \in AllTokens : ListTags("r1", token)
    \/ \E token \in AllTokens, op \in DirectAgentOps :
            AgentStart("r1", token, op)
    \/ \E initOk \in BOOLEAN, outcome \in GenOutcomes :
            AgentRun("r1", initOk, outcome, <<"z">>)
    \/ \E initOk \in BOOLEAN : HealthCheck("r1", initOk)

SpecAuth == Init /\ [][NextAuth]_vars

\* Ingestion by two users with overlapping requests that attach the same tag
\* name, and a chat.
NextOwn ==
    \/ LoginOn(One, Emails)
    \/ /\ ItemRoom(MaxOwnItems)
       /\ \E s \in Slots, token \in Tokens :
            CreateStart(s, token, <<"t">>, None, None, "text", <<UploadedTag>>,
                        EmptyMetadata)
    \/ \E s \in Slots : CreateInsert(s)
    \/ /\ ItemRoom(MaxOwnItems)
       /\ \E s \in Slots, token \in Tokens :
            UploadStart(s, token, <<"f">>, "text/plain", <<"a", BadByte>>, TRUE)
    \/ \E s \in Slots : UploadRead(s, TRUE)
    \/ \E s \in Slots, bytes \in FileBytes :
            \E kept \in 0..Len(bytes) : UploadWrite(s, TRUE, kept)
    \/ \E s \in Slots, bytes \in FileBytes : UploadClose(s, TRUE, Len(bytes))
    \/ \E s \in Slots : UploadReadBack(s, TRUE)
    \/ \E s \in Slots : UploadGen(s, FALSE, "raise", <<"z">>)
    \/ \E s \in Slots : UploadInsert(s)
    \/ TagLoopOn(Slots)
    \/ /\ ChatRoom(1)
       /\ \E token \in Tokens, conversation_id \in ConversationIds :
            ChatStart("r1", token, <<"A">>, conversation_id, TRUE)
    \/ ChatUserMessage("r1")
    \/ ChatSearch("r1")
    \/ ChatGenerate("r1", FALSE, "raise", <<"z">>)
    \/ ChatAssistantMessage("r1")
    \/ HealthCheck("r1", FALSE)

SpecOwn == Init /\ [][NextOwn]_vars

\* Tag lists that name a tag twice, and that share a name with an upload.
RepeatingTagLists ==
    {<<UploadedTag, UploadedTag>>, <<<<"a">>, UploadedTag, <<"a">>>>}

\* Ingestion by two users, one request after another, with tag names that
\* repeat within a request and across requests.
NextTags ==
    \/ LoginOn(One, Emails)
    \/ /\ ItemRoom(MaxTagItems)
       /\ \E token \in Tokens, tagNames \in RepeatingTagLists :
            CreateStart("r1", token, <<"t">>, None, None, "text", tagNames,
                        EmptyMetadata)
    \/ CreateInsert("r1")
    \/ /\ ItemRoom(MaxTagItems)
       /\ \E token \in Tokens :
            UploadStart("r1", token, <<"f">>, "text/plain", <<"a", BadByte>>, TRUE)
    \/ UploadRead("r1", TRUE)
    \/ \E bytes \in FileBytes :
            \E kept \in 0..Len(bytes) : UploadWrite("r1", TRUE, kept)
    \/ \E bytes \in FileBytes : UploadClose("r1", TRUE, Len(bytes))
    \/ UploadReadBack("r1", TRUE)
    \/ UploadGen("r1", FALSE, "raise", <<"z">>)
    \/ UploadInsert("r1")
    \/ TagLoopOn(One)
    \/ HealthCheck("r1", FALSE)

SpecTags == Init /\ [][NextTags]_vars

\* The fields a client may send to create_knowledge_item: each optional one
\* absent, empty or set.
CreateSummaries == {None, <<>>, <<"s">>}
CreateContents == {None, <<>>, <<"a", "B">>}
CreateTypes == {"text", "link"}
CreateMetadatas == {NoMetadata, EmptyMetadata, MetadataOf({<<"k", "v">>})}

\* Responses of the document processor: every label with a value; a
\* "Summary:" label with nothing on its line; no label.
CreateResponses == Responses \cup {<<SummaryLabel, NL, "x">>}

\* create_knowledge_item without tags, one request after another.
NextCreate ==
    \/ LoginOn(One, {"e1"})
    \/ /\ ItemRoom(MaxCreateItems)
       /\ \E token \in Tokens, summary \in CreateSummaries,
             content \in CreateContents, type \in CreateTypes,
             metadata \in CreateMetadatas :
            CreateStart("r1", token, <<"t">>, summary, content, type, <<>>,
                        metadata)
    \/ \E initOk \in BOOLEAN, outcome \in GenOutcomes,
          content \in CreateResponses : CreateGen("r1", initOk, outcome, content)
    \/ CreateInsert("r1")
    \/ \E initOk \in BOOLEAN : HealthCheck("r1", initOk)

SpecCreate == Init /\ [][NextCreate]_vars

\* The default of get_knowledge_items' limit.
DefaultLimit == 50

\* Two users' items, tags and conversations, and the four listings, one
\* request after another.
NextList ==
    \/ LoginOn(One, Emails)
    \/ /\ ItemRoom(MaxListItems)
       /\ \E token \in Tokens :
            CreateStart("r1", token, <<"t">>, None, None, "text", <<<<"a">>>>,
                        EmptyMetadata)
    \/ CreateInsert("r1")
    \/ TagLoopOn(One)
    \/ /\ ChatRoom(MaxListChats)
       /\ \E token \in Tokens, conversation_id \in ConversationIds :
            ChatStart("r1", token, <<"A">>, conversation_id, FALSE)
    \/ ChatUserMessage("r1")
    \/ ChatGenerate("r1", FALSE, "raise", <<"z">>)
    \/ ChatAssistantMessage("r1")
    \/ \E token \in Tokens : ListItems("r1", token, DefaultLimit, 0)
    \/ \E token \in Tokens : ListConversations("r1", token)
    \/ \E token \in Tokens, conversation_id \in 1..(Len(convs) + 1) :
            ListMessages("r1", token, conversation_id)
    \/ \E token \in Tokens : ListTags("r1", token)
    \/ HealthCheck("r1", FALSE)

SpecList == Init /\ [][NextList]_vars

\* An item without tags and an item with one.
PageTagLists == {<<>>, <<<<"a">>>>}

\* The limit and offset parameters sent to get_knowledge_items.
Limits == {0, 1, 2, DefaultLimit}
Offsets == 0..2

\* Two users' items, with and without a tag, and pages of them, one request
\* after another.
NextPage ==
    \/ LoginOn(One, Emails)
    \/ /\ ItemRoom(MaxPageItems)
       /\ \E token \in Tokens, tagNames \in PageTagLists :
            CreateStart("r1", token, <<"t">>, None, None, "text", tagNames,
                        EmptyMetadata)
    \/ CreateInsert("r1")
    \/ TagLoopOn(One)
    \/ \E token \in Tokens, limit \in Limits, offset \in Offsets :
            ListItems("r1", token, limit, offset)
    \/ \E initOk \in BOOLEAN : HealthCheck("r1", initOk)

SpecPage == Init /\ [][NextPage]_vars

\* Overlapping logins, and who the tokens they issue belong to.
NextLogin ==
    \/ LoginOn(Slots, Emails)
    \/ \E s \in Slots, token \in Tokens : UserInfo(s, token)
    \/ \E initOk \in BOOLEAN : HealthCheck("r1", initOk)

SpecLogin == Init /\ [][NextLogin]_vars

\* Tag lists of one and of two names.
PersistTagLists == {<<<<"a">>>>, <<<<"a">>, <<"b">>>>, <<<<"b">>, <<"a">>>>}

\* Ingestion, one request after another, with a record store that may fail
\* in the tag step.
NextPersist ==
    \/ LoginOn(One, {"e1"})
    \/ /\ ItemRoom(MaxPersistItems)
       /\ \E token \in Tokens, tagNames \in PersistTagLists :
            CreateStart("r1", token, <<"t">>, None, None, "text", tagNames,
                        EmptyMetadata)
    \/ CreateInsert("r1")
    \/ /\ ItemRoom(MaxPersistItems)
       /\ \E token \in Tokens :
            UploadStart("r1", token, <<"f">>, "text/plain", <<"a", BadByte>>,
                        TRUE)
    \/ UploadRead("r1", TRUE)
    \/ \E bytes \in FileBytes :
            \E kept \in 0..Len(bytes) : UploadWrite("r1", TRUE, kept)
    \/ \E bytes \in FileBytes : UploadClose("r1", TRUE, Len(bytes))
    \/ UploadReadBack("r1", TRUE)
    \/ UploadGen("r1", FALSE, "raise", <<"z">>)
    \/ UploadInsert("r1")
    \/ TagLoopOn(One)
    \/ TagFail("r1")
    \/ HealthCheck("r1", FALSE)

SpecPersist == Init /\ [][NextPersist]_vars

\* Responses of the document processor to an upload: every label with a
\* value; no label; each label alone; a "Title:" with nothing on its line; a
\* "Summary:" twice on one line; a "Tags:" with nothing on its line, and with
\* only commas and blanks.
UploadResponses ==
    Responses \cup
    {<<TitleLabel, Space, "x">>,
     <<"w", NL, SummaryLabel, Space, "y", Space, NL, "v">>,
     <<TagsLabel, "a", Space, Comma, "b">>,
     <<TitleLabel, Space, NL, SummaryLabel, "y">>,
     <<SummaryLabel, Space, "y", Space, SummaryLabel, Space, "w", NL, "v">>,
     <<TagsLabel, NL, "a">>,
     <<TagsLabel, Space, Comma, Space, Comma>>}

\* upload_file, one request after another, the file saved or not.
NextUpload ==
    \/ LoginOn(One, {"e1"})
    \/ /\ ItemRoom(MaxUploadItems) /\ Len(files) < MaxUploadFiles
       /\ \E token \in Tokens, content_type \in ContentTypes, opened \in BOOLEAN :
            UploadStart("r1", token, <<"f">>, content_type, <<"a", BadByte>>,
                        opened)
    \/ \E readOk \in BOOLEAN : UploadRead("r1", readOk)
    \/ \E writeOk \in BOOLEAN, bytes \in FileBytes :
            \E kept \in 0..Len(bytes) : UploadWrite("r1", writeOk, kept)
    \/ \E closeOk \in BOOLEAN, bytes \in FileBytes :
            \E kept \in 0..Len(bytes) : UploadClose("r1", closeOk, kept)
    \/ \E readOk \in BOOLEAN : UploadReadBack("r1", readOk)
    \/ \E initOk \in BOOLEAN, outcome \in GenOutcomes,
          content \in UploadResponses : UploadGen("r1", initOk, outcome, content)
    \/ UploadInsert("r1")
    \/ TagLoopOn(One)
    \/ \E initOk \in BOOLEAN : HealthCheck("r1", initOk)

SpecUpload == Init /\ [][NextUpload]_vars

\* upload_file, two requests at a time, each await of the block that saves
\* the file a step of its own with every outcome.
NextSave ==
    \/ LoginOn(One, {"e1"})
    \/ /\ ItemRoom(MaxSaveItems) /\ Len(files) < MaxSaveFiles
       /\ \E s \in Slots, token \in Tokens, content_type \in ContentTypes,
             opened \in BOOLEAN :
            UploadStart(s, token, <<"f">>, content_type, <<"a", BadByte>>, opened)
    \/ \E s \in Slots, readOk \in BOOLEAN : UploadRead(s, readOk)
    \/ \E s \in Slots, writeOk \in BOOLEAN, bytes \in FileBytes :
            \E kept \in 0..Len(bytes) : UploadWrite(s, writeOk, kept)
    \/ \E s \in Slots, closeOk \in BOOLEAN, bytes \in FileBytes :
            \E kept \in 0..Len(bytes) : UploadClose(s, closeOk, kept)
    \/ \E s \in Slots, readOk \in BOOLEAN : UploadReadBack(s, readOk)
    \/ \E s \in Slots, initOk \in BOOLEAN, outcome \in GenOutcomes :
            UploadGen(s, initOk, outcome, <<"z">>)
    \/ \E s \in Slots : UploadInsert(s)
    \/ TagLoopOn(Slots)
    \/ \E initOk \in BOOLEAN : HealthCheck("r1", initOk)

SpecSave == Init /\ [][NextSave]_vars


\* ---------------------------------------------------------------- claims

\* The request of slot s is of handler op and was answered 200.
Answered(s, op) ==
    reqs[s].op = op /\ reqs[s].pc = "done" /\ reqs[s].resp.status = 200

\* The request of slot s is an upload_file or create_knowledge_item that has
\* committed its item.
HasItem(s, op) == reqs[s].op = op /\ reqs[s].loc.item # 0

\* C1: every row upload_file creates has is_processed = true, whether the
\* analysis returned a response, raised, or the agents were unavailable; the
\* response says the same.
C1_UploadIsProcessed ==
    \A s \in Slots :
        /\ HasItem(s, "upload") => items[reqs[s].loc.item].is_processed = TRUE
        /\ Answered(s, "upload") => reqs[s].resp.body.isProcessed = TRUE

\* C1: an upload whose analysis raised has its row, marked processed.
C1_Witness ==
    \E s \in Slots :
        /\ Answered(s, "upload")
        /\ reqs[s].loc.gen.kind = "raised"
        /\ items[reqs[s].loc.item].is_processed

\* No request is in flight.
Quiet == \A s \in Slots : reqs[s].pc \in {"idle", "done"}

\* The tag rows of a user with a name.
TagRows(uid, name) ==
    {t \in 1..Len(tags) : tags[t].user_id = uid /\ tags[t].name = name}

\* C2: once the overlapping upload_file / create_knowledge_item requests of a
\* user that attach the same new tag name have finished, one Tag row exists
\* for the (user, name) pair and each created item is associated with it.
C2_OneTagRowPerUserAndName ==
    Quiet =>
        /\ \A t \in 1..Len(tags) :
                Cardinality(TagRows(tags[t].user_id, tags[t].name)) = 1
        /\ \A s \in Slots :
                (reqs[s].op \in {"create", "upload"} /\ reqs[s].resp.status = 200) =>
                    \A k \in 1..Len(reqs[s].loc.tagNames) :
                        TagRows(reqs[s].user, reqs[s].loc.tagNames[k])
                            \subseteq Range(ItemTagIds(reqs[s].loc.item))

\* C3: the user message of a chat request is committed strictly before its
\* assistant message, both in the request's conversation, whatever other chat
\* requests do to that conversation meanwhile.
C3_UserMessageBeforeAssistant ==
    \A s \in Slots :
        (reqs[s].op = "chat" /\ reqs[s].loc.assistant_message # 0) =>
            LET um == reqs[s].loc.user_message
                am == reqs[s].loc.assistant_message
            IN  /\ um \in 1..Len(messages) /\ am \in 1..Len(messages)
                /\ um < am
                /\ messages[um].role = "user"
                /\ messages[am].role = "assistant"
                /\ messages[um].conversation_id = reqs[s].loc.conversation
                /\ messages[am].conversation_id = reqs[s].loc.conversation

\* C3: two chat requests on one conversation have overlapped: the second user
\* message was committed between the first request's two messages.
C3_Witness ==
    /\ Answered("r1", "chat") /\ Answered("r2", "chat")
    /\ reqs["r1"].loc.conversation = reqs["r2"].loc.conversation
    /\ \E s, t \in Slots :
        /\ reqs[s].loc.user_message < reqs[t].loc.user_message
        /\ reqs[t].loc.user_message < reqs[s].loc.assistant_message

\* The row of the user message of the chat request of slot s is in the table.
UserMessageCommitted(s) ==
    LET um == reqs[s].loc.user_message
    IN  /\ um \in 1..Len(messages)
        /\ messages[um].role = "user"
        /\ messages[um].content = reqs[s].in.message
        /\ messages[um].conversation_id = reqs[s].loc.conversation
        /\ reqs[s].loc.conversation \in 1..Len(convs)

\* C4: from the moment a chat request is about to call the conversation
\* agent, its conversation holds its user message: also while the call has
\* not returned and after it failed.
C4_UserMessageBeforeGeneration ==
    \A s \in Slots :
        (/\ reqs[s].op = "chat"
         /\ \/ reqs[s].pc \in {"search", "generate", "assistantMessage"}
            \/ reqs[s].loc.gen.kind # "none") =>
            UserMessageCommitted(s)

\* C4: the call of a chat request raised, and the user message is there.
C4_Witness ==
    \E s \in Slots :
        /\ reqs[s].op = "chat" /\ reqs[s].pc = "assistantMessage"
        /\ reqs[s].loc.gen.kind = "raised"
        /\ UserMessageCommitted(s)

\* C5: the sources of a chat request that uses the knowledge base are items
\* of the requesting user, at most 5 of them.
C5_SourcesOwnedAndCapped ==
    \A s \in Slots :
        (Answered(s, "chat") /\ reqs[s].in.use_knowledge_base) =>
            /\ Len(reqs[s].resp.sources) <= 5
            /\ \A k \in 1..Len(reqs[s].resp.sources) :
                LET id == reqs[s].resp.sources[k].id
                IN  id \in 1..Len(items) /\ items[id].user_id = reqs[s].user

\* C5: a chat answered with 5 sources for a user who has more than 5 matching
\* items, while another user has a matching item too.
C5_Witness ==
    \E s \in Slots :
        /\ Answered(s, "chat") /\ reqs[s].in.use_knowledge_base
        /\ Len(reqs[s].resp.sources) = 5
        /\ Cardinality(MatchingItems(reqs[s].user, reqs[s].in.message)) > 5
        /\ \E i \in 1..Len(items) :
            /\ items[i].user_id # reqs[s].user
            /\ ILike(items[i].content, reqs[s].in.message)

\* C6: a chat request with use_knowledge_base = false never queries the
\* knowledge items, returns no sources and stores none with the assistant
\* message.
C6_NoSearchWithoutKnowledgeBase ==
    \A s \in Slots :
        (reqs[s].op = "chat" /\ ~reqs[s].in.use_knowledge_base) =>
            /\ ~reqs[s].loc.queried
            /\ reqs[s].pc # "search"
            /\ reqs[s].loc.relevant_items = <<>>
            /\ Answered(s, "chat") =>
                /\ reqs[s].resp.sources = <<>>
                /\ messages[reqs[s].loc.assistant_message].sources = <<>>

\* C6: such a request was answered although the user has an item the query
\* would have matched.
C6_Witness ==
    \E s \in Slots :
        /\ Answered(s, "chat") /\ ~reqs[s].in.use_knowledge_base
        /\ MatchingItems(reqs[s].user, reqs[s].in.message) # {}
        /\ reqs[s].resp.sources = <<>>

\* C7: get_knowledge_item answers an id of another user's item with the very
\* 404 it gives for an id in no row; it answers 200 only with an item of the
\* caller, and never 403.
C7_ForeignItemNotFound ==
    \A s \in Slots :
        (reqs[s].op = "get" /\ reqs[s].user # 0) =>
            LET id == reqs[s].in.item_id
                exists == id \in 1..Len(items)
            IN  /\ reqs[s].resp.status \in {200, 404}
                /\ (~exists \/ items[id].user_id # reqs[s].user) =>
                        reqs[s].resp = NotFound
                /\ reqs[s].resp.status = 200 =>
                        exists /\ items[id].user_id = reqs[s].user

\* C7: an id of another user's item was asked for and answered not found.
C7_Witness ==
    \E s \in Slots :
        /\ reqs[s].op = "get" /\ reqs[s].user # 0
        /\ reqs[s].in.item_id \in 1..Len(items)
        /\ items[reqs[s].in.item_id].user_id # reqs[s].user
        /\ reqs[s].resp = NotFound

\* C8: a get_knowledge_item that follows a successful create_knowledge_item
\* with tag list T, by the same user on the created id, returns a tag list
\* with the names of T and no other; so does the create's own response.
C8_TagRoundTrip ==
    [][\A s \in Slots :
        /\ Answered(s, "create") =>
              Range(reqs[s].resp.body.tags) = Range(reqs[s].in.tags)
        /\ (/\ Answered(s, "create")
            /\ reqs'[s].op = "get"
            /\ reqs'[s].user = reqs[s].user
            /\ reqs'[s].in.item_id = reqs[s].loc.item) =>
              /\ reqs'[s].resp.status = 200
              /\ Range(reqs'[s].resp.body.tags) = Range(reqs[s].in.tags)]_vars

\* C8: an item fetched with two tag names, one of them on a tag row that an
\* earlier item of the user already had.
C8_Witness ==
    \E s \in Slots :
        /\ Answered(s, "get")
        /\ Range(reqs[s].resp.body.tags) = {<<"a">>, <<"b">>}
        /\ \E i \in 1..Len(items) :
            /\ i < reqs[s].in.item_id
            /\ Range(ItemTagIds(i)) \cap Range(ItemTagIds(reqs[s].in.item_id)) # {}

\* C9: an upload whose analysis failed or had no agents gets the file name as
\* title, the fixed summary, and the one tag "uploaded".
C9_UploadFallback ==
    \A s \in Slots :
        (Answered(s, "upload") /\ reqs[s].loc.gen.kind \in {"raised", "unavailable"}) =>
            /\ items[reqs[s].loc.item].title = reqs[s].in.filename
            /\ items[reqs[s].loc.item].summary = SummaryUploaded
            /\ reqs[s].resp.body.title = reqs[s].in.filename
            /\ reqs[s].resp.body.summary = SummaryUploaded
            /\ reqs[s].resp.body.tags = <<UploadedTag>>
            /\ {tags[t].name : t \in Range(ItemTagIds(reqs[s].loc.item))} = {UploadedTag}

\* C9: an upload without agents was answered.
C9_Witness ==
    \E s \in Slots :
        /\ Answered(s, "upload")
        /\ reqs[s].loc.gen.kind = "unavailable"
        /\ reqs[s].resp.body.tags = <<UploadedTag>>

\* The handlers that call the generation capability.
Generating == {"create", "upload", "chat", "process-document", "search"}

\* C10: no request whose generation call raised or had no agents ends in an
\* error: each is answered 200.
C10_GenerationFailureRecovered ==
    \A s \in Slots :
        (/\ reqs[s].op \in Generating
         /\ reqs[s].pc = "done"
         /\ reqs[s].loc.gen.kind \in {"raised", "unavailable"}) =>
            reqs[s].resp.status = 200

\* The chat request of slot s has responded, its assistant message persisted.
ChatCompleted(s) ==
    /\ Answered(s, "chat")
    /\ reqs[s].loc.assistant_message \in 1..Len(messages)
    /\ messages[reqs[s].loc.assistant_message].role = "assistant"

\* C11: every chat request the handler has taken up eventually responds with
\* its assistant message persisted, whatever the generation capability does,
\* a call that never answers included: no chat request stays stuck.
C11_ChatCompletes ==
    \A s \in One :
        (reqs[s].op = "chat" /\ reqs[s].pc = "userMessage") ~> ChatCompleted(s)

\* The request slot s takes up in this step is a chat of an authenticated user.
ChatTakenUp(s) ==
    /\ Free(s) /\ reqs'[s] # reqs[s]
    /\ reqs'[s].op = "chat" /\ reqs'[s].user # 0

\* C12: chat uses the conversation of the supplied id only when that row
\* exists and is owned by the requesting user; with no id, an id in no row or
\* the id of another user's conversation it commits a new conversation owned
\* by the requester and uses that; every message committed goes to a
\* conversation owned by the user of the request that commits it.
C12_ConversationResolution ==
    [][/\ \A s \in Slots :
            ChatTakenUp(s) =>
                LET id == reqs'[s].in.conversation_id
                    uid == reqs'[s].user
                IN  IF id \in 1..Len(convs) /\ convs[id].user_id = uid
                    THEN /\ convs' = convs
                         /\ reqs'[s].loc.conversation = id
                    ELSE /\ convs' = Append(convs, [user_id |-> uid])
                         /\ reqs'[s].loc.conversation = Len(convs) + 1
       /\ Len(messages') > Len(messages) =>
            \E s \in Slots :
                /\ reqs[s].op = "chat" /\ reqs'[s] # reqs[s]
                /\ convs[messages'[Len(messages')].conversation_id].user_id
                        = reqs[s].user]_vars

\* C12: a chat that named another user's conversation was answered in a
\* conversation of its own, and the named conversation holds no message of it.
C12_Witness ==
    \E s \in Slots :
        /\ Answered(s, "chat")
        /\ reqs[s].in.conversation_id \in 1..Len(convs)
        /\ convs[reqs[s].in.conversation_id].user_id # reqs[s].user
        /\ reqs[s].loc.conversation # reqs[s].in.conversation_id
        /\ convs[reqs[s].loc.conversation].user_id = reqs[s].user
        /\ messages[reqs[s].loc.user_message].conversation_id = reqs[s].loc.conversation

\* C13: in development every login, one after another, is answered with a
\* token whose subject is the id of the one user with the e-mail, and
\* get_current_user resolves the token to that user: the first login with an
\* e-mail creates the user, a later one creates none and names the same id.
C13_DevLoginIdempotent ==
    \A s \in Slots :
        (reqs[s].op = "login" /\ reqs[s].pc = "done"
            /\ environment = "development") =>
            /\ reqs[s].resp.status = 200
            /\ reqs[s].resp.token = AccessToken(reqs[s].resp.user)
            /\ get_current_user(reqs[s].resp.token) = reqs[s].resp.user
            /\ UsersWithEmail(reqs[s].email) = {reqs[s].resp.user}

\* C13: a login answered with the id of a user that an earlier login created,
\* another user having been created in between.
C13_Witness ==
    \E s \in Slots :
        /\ Answered(s, "login")
        /\ reqs[s].resp.user < Len(users)
        /\ users[reqs[s].resp.user].email = reqs[s].email
        /\ get_current_user(reqs[s].resp.token) = reqs[s].resp.user

\* C14: outside development no login gets past the check of the environment:
\* each is answered 403 without a token, none reaches the query or the insert
\* of a user, and the users table stays empty.
C14_NoLoginOutsideDevelopment ==
    environment # "development" =>
        /\ users = <<>>
        /\ \A s \in Slots :
                reqs[s].op = "login" =>
                    /\ reqs[s].pc = "done"
                    /\ reqs[s].resp = [status |-> 403]

\* C14: a login was rejected in an environment that is neither development
\* nor production.
C14_Witness ==
    \E s \in Slots :
        /\ environment = "staging"
        /\ reqs[s].op = "login" /\ reqs[s].resp = [status |-> 403]
        /\ users = <<>>

\* The handlers behind get_current_user.
AuthenticatedOps ==
    {"create", "upload", "get", "list-items", "user", "chat",
     "list-conversations", "list-messages", "list-tags", "process-document",
     "search"}

\* The token is invalid or expired, has no subject, or names no user's id.
RefusedToken(token) ==
    \/ token.kind \in {"invalid", "expired"}
    \/ token.sub = 0
    \/ token.sub \notin 1..Len(users)

\* C15: a request to an authenticated endpoint with a token that is invalid,
\* expired, without subject or for an id no user has is answered 401 in the
\* step that takes it up: no row and no file changes, the agents are not
\* touched, and no step of the handler is left to run.
C15_UnauthorizedBeforeHandler ==
    [][\A s \in Slots :
        (/\ Free(s) /\ reqs'[s] # reqs[s]
         /\ reqs'[s].op \in AuthenticatedOps
         /\ RefusedToken(reqs'[s].token)) =>
            /\ reqs'[s].pc = "done"
            /\ reqs'[s].resp = Unauthorized
            /\ store' = store
            /\ agents' = agents]_vars

\* C15: an upload with a token signed for an id that no user has was refused
\* while a user exists, and no file was written.
C15_Witness ==
    \E s \in Slots :
        /\ reqs[s].op = "upload"
        /\ users # <<>>
        /\ reqs[s].token = AccessToken(Len(users) + 1)
        /\ reqs[s].resp = Unauthorized
        /\ files = <<>>

\* C16: every knowledge item is owned by one user, a row of users, and every
\* tag associated with an item is owned by the item's owner.
C16_TagsOfTheItemsOwner ==
    /\ \A i \in 1..Len(items) : items[i].user_id \in 1..Len(users)
    /\ \A k \in 1..Len(item_tags) :
            /\ item_tags[k][1] \in 1..Len(items)
            /\ item_tags[k][2] \in 1..Len(tags)
            /\ tags[item_tags[k][2]].user_id = items[item_tags[k][1]].user_id

\* C16: two users each have an item tagged with the same name, a
\* conversation exists, and no tag row is shared.
C16_Witness ==
    /\ convs # <<>>
    /\ \E i, j \in 1..Len(items) :
            /\ items[i].user_id # items[j].user_id
            /\ ItemTagIds(i) # <<>> /\ ItemTagIds(j) # <<>>
            /\ tags[ItemTagIds(i)[1]].name = tags[ItemTagIds(j)[1]].name
            /\ ItemTagIds(i)[1] # ItemTagIds(j)[1]

\* C17: with create_knowledge_item and upload_file requests running one after
\* another, no two tag rows have the same user and name at any time, and a
\* finished request has attached, for each name it lists (once or twice),
\* the one tag row of its user with that name.
C17_SequentialOneTagPerUserAndName ==
    /\ \A t, u \in 1..Len(tags) :
            (tags[t].user_id = tags[u].user_id /\ tags[t].name = tags[u].name)
                => t = u
    /\ \A s \in One :
            (reqs[s].op \in {"create", "upload"} /\ Answered(s, reqs[s].op)) =>
                \A k \in 1..Len(reqs[s].loc.tagNames) :
                    \E t \in Range(ItemTagIds(reqs[s].loc.item)) :
                        /\ TagRows(reqs[s].user, reqs[s].loc.tagNames[k]) = {t}
                        /\ tags[t].user_id = reqs[s].user

\* C17: a request that lists a name twice was answered after an upload of the
\* same user had created the tag of that name, and another user has a tag
\* row of that name as well.
C17_Witness ==
    \E s \in One :
        /\ Answered(s, "create")
        /\ reqs[s].in.tags = <<UploadedTag, UploadedTag>>
        /\ \E i \in 1..Len(items) :
                /\ i < reqs[s].loc.item
                /\ items[i].user_id = reqs[s].user
                /\ items[i].type = "document"
        /\ Cardinality({t \in 1..Len(tags) : tags[t].name = UploadedTag}) = 2

\* C18: the row create_knowledge_item commits holds the supplied title,
\* content and type, and the supplied metadata (the empty map when none was
\* supplied); a supplied non-empty summary is stored as it is; the stored
\* summary differs from the supplied one only when none was supplied, content
\* was supplied and the response had a "Summary:" label, and is then the text
\* of that label; without content no generation call is made.
C18_SuppliedFieldsTakePrecedence ==
    \A s \in Slots :
        reqs[s].op = "create" =>
            /\ ~Truthy(reqs[s].in.content) =>
                    /\ reqs[s].pc # "gen"
                    /\ reqs[s].loc.gen = NoGen
                    /\ reqs[s].loc.genCalls = 0
            /\ reqs[s].loc.item # 0 =>
                LET row == items[reqs[s].loc.item]
                    in == reqs[s].in
                    gen == reqs[s].loc.gen
                IN  /\ row.title = in.title
                    /\ row.content = in.content
                    /\ row.type = in.type
                    /\ row.metadata = IF in.metadata.null THEN EmptyMetadata
                                      ELSE in.metadata
                    /\ Truthy(in.summary) => row.summary = in.summary
                    /\ row.summary # in.summary =>
                            /\ ~Truthy(in.summary)
                            /\ Truthy(in.content)
                            /\ gen.kind = "ok"
                            /\ Contains(gen.content, SummaryLabel)
                            /\ row.summary = LabelValue(gen.content, SummaryLabel)

\* C18: an item was created with a supplied summary and content while the
\* response suggested another summary, and the row holds the supplied one.
C18_Witness ==
    \E s \in Slots :
        /\ Answered(s, "create")
        /\ reqs[s].in.summary = <<"s">>
        /\ reqs[s].loc.gen.kind = "ok"
        /\ Contains(reqs[s].loc.gen.content, SummaryLabel)
        /\ LabelValue(reqs[s].loc.gen.content, SummaryLabel) = <<"y">>
        /\ items[reqs[s].loc.item].summary = <<"s">>
        /\ items[reqs[s].loc.item].metadata = MetadataOf({<<"k", "v">>})

\* The ids of the entries of a listing.
BodyIds(body) == {body[k].id : k \in 1..Len(body)}

\* C19: get_knowledge_items, get_conversations and get_tags answer with the
\* caller's rows and no other (each conversation with the count of its own
\* messages); get_conversation_messages answers with the messages of the
\* conversation asked for when the caller owns it, and with 404 when another
\* user owns it or no row has the id.
C19_ListingsOwnershipScoped ==
    \A s \in Slots :
        LET uid == reqs[s].user
            body == reqs[s].resp.body
        IN  /\ Answered(s, "list-items") =>
                /\ BodyIds(body) = {i \in 1..Len(items) : items[i].user_id = uid}
                /\ \A k \in 1..Len(body) :
                        \A n \in 1..Len(body[k].tags) :
                            \E t \in 1..Len(tags) :
                                /\ tags[t].user_id = uid
                                /\ tags[t].name = body[k].tags[n]
            /\ Answered(s, "list-conversations") =>
                /\ BodyIds(body) = {c \in 1..Len(convs) : convs[c].user_id = uid}
                /\ \A k \in 1..Len(body) :
                        body[k].message_count =
                            Cardinality({m \in 1..Len(messages) :
                                messages[m].conversation_id = body[k].id})
            /\ Answered(s, "list-tags") =>
                /\ BodyIds(body) = {t \in 1..Len(tags) : tags[t].user_id = uid}
                /\ \A k \in 1..Len(body) : body[k].name = tags[body[k].id].name
            /\ (reqs[s].op = "list-messages" /\ uid # 0) =>
                LET id == reqs[s].in.conversation_id
                IN  IF id \in 1..Len(convs) /\ convs[id].user_id = uid
                    THEN /\ reqs[s].resp.status = 200
                         /\ BodyIds(body) = {m \in 1..Len(messages) :
                                messages[m].conversation_id = id}
                         /\ \A k \in 1..Len(body) :
                                body[k].content = messages[body[k].id].content
                    ELSE reqs[s].resp = ConversationNotFound

\* C19: the messages of another user's conversation were asked for and the
\* answer was 404, the conversation holding messages and the caller having a
\* conversation too.
C19_Witness ==
    \E s \in Slots :
        /\ reqs[s].op = "list-messages" /\ reqs[s].user # 0
        /\ reqs[s].in.conversation_id \in 1..Len(convs)
        /\ convs[reqs[s].in.conversation_id].user_id # reqs[s].user
        /\ MessagesOf(reqs[s].in.conversation_id) # <<>>
        /\ \E c \in 1..Len(convs) : convs[c].user_id = reqs[s].user
        /\ reqs[s].resp = ConversationNotFound

\* C20: get_knowledge_items(limit, offset) answers with items of the caller,
\* a later created one before an earlier created one: its k-th entry is the
\* caller's item with offset + k - 1 newer items of the caller, there are
\* min(limit, count - offset) entries (none when offset exceeds the count),
\* and each entry carries the names of the item's tags.
C20_NewestFirstPage ==
    \A s \in Slots :
        Answered(s, "list-items") =>
            LET body == reqs[s].resp.body
                limit == reqs[s].in.limit
                offset == reqs[s].in.offset
                own == {i \in 1..Len(items) : items[i].user_id = reqs[s].user}
                rest == Cardinality(own) - offset
            IN  /\ Len(body) = IF rest <= 0 THEN 0
                               ELSE IF limit < rest THEN limit ELSE rest
                /\ \A k \in 1..Len(body) :
                        /\ body[k].id \in own
                        /\ Cardinality({i \in own : i > body[k].id})
                                = offset + k - 1
                        /\ Range(body[k].tags) =
                                {tags[r[2]].name :
                                    r \in {q \in Range(item_tags) : q[1] = body[k].id}}
                /\ \A k, l \in 1..Len(body) : k < l => body[k].id > body[l].id

\* C20: a page of one entry after an offset of one, for a caller with items
\* on either side of another user's item; the entry is the older item, with
\* its tag.
C20_Witness ==
    \E s \in Slots :
        /\ Answered(s, "list-items")
        /\ reqs[s].in.limit = 1 /\ reqs[s].in.offset = 1
        /\ Len(reqs[s].resp.body) = 1
        /\ reqs[s].resp.body[1].id = 1
        /\ reqs[s].resp.body[1].tags = <<<<"a">>>>
        /\ Len(items) = 3
        /\ items[2].user_id # reqs[s].user
        /\ items[3].user_id = reqs[s].user

\* C21: the process serves no request while the generation API key is
\* missing: every request taken up was taken up with the key set.
C21_NoServiceWithoutKey ==
    \A s \in Slots : reqs[s].op # "idle" => openai_api_key

\* The upload_file request of slot s could not save its file.
WriteFailure(s) ==
    /\ reqs[s].op = "upload" /\ reqs[s].user # 0
    /\ reqs[s].loc.save \notin {"pending", "ok"}

\* C22: once file.read(), f.write or the close of the file has failed in
\* upload_file, the request only leaves the block that saves the file and
\* ends with a server error: its steps change no table and do not set up
\* the agents, it has made no generation call and has no item. The same
\* holds of every upload_file request that is still saving its file.
C22_WriteFailureAborts ==
    [][\A s \in Slots :
        /\ (WriteFailure(s)' /\ reqs'[s] # reqs[s]) =>
                /\ reqs'[s].pc \in {"close", "done"}
                /\ reqs'[s].pc = "done" => reqs'[s].resp = WriteFailed
                /\ reqs'[s].loc.gen = NoGen /\ reqs'[s].loc.genCalls = 0
                /\ reqs'[s].loc.item = 0
                /\ UNCHANGED <<users, items, tags, item_tags, convs, messages,
                               agents>>
        /\ (WriteFailure(s) /\ reqs[s].pc = "close" /\ reqs'[s] # reqs[s]) =>
                reqs'[s].pc = "done" /\ reqs'[s].resp = WriteFailed
        /\ (reqs'[s].op = "upload"
            /\ reqs'[s].pc \in {"read", "write", "close", "readBack"}) =>
                /\ reqs'[s].loc.gen = NoGen /\ reqs'[s].loc.genCalls = 0
                /\ reqs'[s].loc.item = 0]_vars

\* C22: an upload whose close raised with one byte of its content in the
\* file has ended with a server error; it ran from the opening of its file
\* to its end while an earlier upload was still inside the block that saves
\* the file, its content written and its file not yet closed.
C22_Witness ==
    \E s, t \in Slots :
        /\ WriteFailure(s) /\ reqs[s].pc = "done"
        /\ reqs[s].loc.save = "close"
        /\ reqs[s].loc.file \in 1..Len(files)
        /\ files[reqs[s].loc.file].bytes = <<"a">>
        /\ reqs[t].op = "upload" /\ reqs[t].pc = "close"
        /\ reqs[t].loc.save = "pending"
        /\ reqs[t].loc.file \in 1..(reqs[s].loc.file - 1)
        /\ files[reqs[t].loc.file].bytes = reqs[t].in.bytes

\* C23: a completed chat request's response agrees with the rows it stored:
\* its sources are those in the assistant message's metadata, its message is
\* the assistant message's content, and its conversation_id is the
\* conversation of the request's user message and assistant message.
C23_ResponseMatchesStoredTurn ==
    \A s \in Slots :
        Answered(s, "chat") =>
            LET user == reqs[s].loc.user_message
                assistant == reqs[s].loc.assistant_message
                resp == reqs[s].resp
            IN  /\ user \in 1..Len(messages) /\ assistant \in 1..Len(messages)
                /\ messages[user].role = "user"
                /\ messages[user].content = reqs[s].in.message
                /\ messages[assistant].role = "assistant"
                /\ serialize_chat_message(assistant).metadata.sources = resp.sources
                /\ messages[assistant].content = resp.message
                /\ resp.conversation_id \in 1..Len(convs)
                /\ messages[user].conversation_id = resp.conversation_id
                /\ messages[assistant].conversation_id = resp.conversation_id

\* C23: a chat request was answered with a source, in a conversation that
\* held an earlier turn.
C23_Witness ==
    \E s \in Slots :
        /\ Answered(s, "chat")
        /\ reqs[s].resp.sources # <<>>
        /\ reqs[s].loc.user_message > 2

\* The request of slot s has made its generation call, which failed.
GenerationFailed(s) ==
    /\ reqs[s].op \in {"upload", "create", "chat"}
    /\ reqs[s].pc \in {"insert", "assistantMessage"}
    /\ reqs[s].loc.gen.kind \in {"raised", "unavailable"}

\* The row the step persists holds the fallback values of the request of
\* slot s.
FallbackPersisted(s) ==
    IF reqs[s].op = "chat"
    THEN /\ messages' = Append(messages, messages'[Len(messages')])
         /\ messages'[Len(messages')].role = "assistant"
         /\ messages'[Len(messages')].content = Apology
    ELSE /\ items' = Append(items, items'[Len(items')])
         /\ IF reqs[s].op = "upload"
            THEN /\ items'[Len(items')].title = reqs[s].in.filename
                 /\ items'[Len(items')].summary = SummaryUploaded
                 /\ reqs'[s].loc.tagNames = <<UploadedTag>>
            ELSE /\ items'[Len(items')].title = reqs[s].in.title
                 /\ items'[Len(items')].summary = reqs[s].in.summary

\* C24: an upload_file, create_knowledge_item or chat request calls the
\* generation capability at most once, and the step after a failed call is
\* the persistence of the fallback values, without another call.
C24_OneGenerationCallNoRetry ==
    [][\A s \in Slots :
        /\ (reqs'[s].op \in {"upload", "create", "chat"}) =>
                reqs'[s].loc.genCalls <= 1
        /\ (GenerationFailed(s) /\ reqs'[s] # reqs[s]) =>
                /\ reqs'[s].loc.genCalls = reqs[s].loc.genCalls
                /\ reqs'[s].loc.gen = reqs[s].loc.gen
                /\ FallbackPersisted(s)]_vars

\* C24: a chat request whose generation call raised has stored its
\* assistant message, having made that one call.
C24_Witness ==
    \E s \in Slots :
        /\ Answered(s, "chat")
        /\ reqs[s].loc.gen.kind = "raised"
        /\ reqs[s].loc.genCalls = 1
        /\ \E i \in 1..Len(items) : items[i].summary = SummaryUploaded

\* The upload_file request of slot s has parsed a response of the document
\* processor.
UploadParsed(s) ==
    /\ reqs[s].op = "upload" /\ reqs[s].user # 0
    /\ reqs[s].loc.gen.kind = "ok"

\* The text after the first label up to the next line break, without the
\* blanks around it.
TextToLineBreak(s, label) == Strip(SplitFirst(AfterFirst(s, label), NL))

\* The text after the first label up to the next line break or the next
\* label, whichever comes first, without the blanks around it.
TextToLineBreakOrLabel(s, label) ==
    LET rest == AfterFirst(s, label)
        stops == Positions(rest, NL) \cup Positions(rest, label)
    IN  Strip(IF stops = {} THEN rest ELSE SubSeq(rest, 1, Min(stops) - 1))

\* C25 as stated: after a successful response each of title, summary and
\* tags of upload_file is the fallback when its label is absent, and the text
\* after the label's first occurrence up to the next line break when it is
\* present (the tags: the comma-separated parts of that text).
C25_LabelledFieldsToLineBreak ==
    \A s \in Slots :
        UploadParsed(s) =>
            LET text == reqs[s].loc.gen.content
                loc == reqs[s].loc
            IN  /\ loc.title = IF Contains(text, TitleLabel)
                               THEN TextToLineBreak(text, TitleLabel)
                               ELSE reqs[s].in.filename
                /\ loc.summary = IF Contains(text, SummaryLabel)
                                 THEN TextToLineBreak(text, SummaryLabel)
                                 ELSE SummaryProcessed
                /\ loc.tagNames =
                        IF Contains(text, TagsLabel)
                        THEN StripNonEmpty(SplitComma(TextToLineBreak(text, TagsLabel)))
                        ELSE <<UploadedTag>>

\* C25 amended: the text of a present label ends at the next line break or
\* at the next occurrence of the label, whichever comes first, and a title
\* that is empty falls back to the file name.
C25_LabelledFieldsExtracted ==
    \A s \in Slots :
        UploadParsed(s) =>
            LET text == reqs[s].loc.gen.content
                loc == reqs[s].loc
            IN  /\ loc.title =
                        IF Contains(text, TitleLabel)
                           /\ TextToLineBreakOrLabel(text, TitleLabel) # <<>>
                        THEN TextToLineBreakOrLabel(text, TitleLabel)
                        ELSE reqs[s].in.filename
                /\ loc.summary = IF Contains(text, SummaryLabel)
                                 THEN TextToLineBreakOrLabel(text, SummaryLabel)
                                 ELSE SummaryProcessed
                /\ loc.tagNames =
                        IF Contains(text, TagsLabel)
                        THEN StripNonEmpty(SplitComma(
                                TextToLineBreakOrLabel(text, TagsLabel)))
                        ELSE <<UploadedTag>>
                /\ loc.item # 0 =>
                        /\ items[loc.item].title = loc.title
                        /\ items[loc.item].summary = loc.summary

\* C25: an upload was stored whose response had a "Summary:" label, with
\* more text after its line, and no "Title:" label.
C25_Witness ==
    \E s \in Slots :
        /\ UploadParsed(s) /\ reqs[s].loc.item # 0
        /\ Contains(reqs[s].loc.gen.content, SummaryLabel)
        /\ ~Contains(reqs[s].loc.gen.content, TitleLabel)
        /\ items[reqs[s].loc.item].title = reqs[s].in.filename
        /\ items[reqs[s].loc.item].summary = <<"y">>
        /\ reqs[s].loc.tagNames = <<UploadedTag>>

\* C26: the item of every answered upload_file request is associated with
\* at least one tag, whatever the response of the document processor was.
C26_UploadedItemHasTag ==
    \A s \in Slots :
        Answered(s, "upload") =>
            /\ \E r \in Range(item_tags) : r[1] = reqs[s].loc.item
            /\ reqs[s].resp.body.tags # <<>>

\* The step is one of the chat request of slot s.
ChatStep(s) == reqs'[s] # reqs[s] /\ reqs'[s].op = "chat"

\* The step appends one message of the role to the conversation of the chat
\* request of slot s, a conversation of the requester.
AddsTurn(s, role) ==
    /\ messages' = Append(messages, messages'[Len(messages')])
    /\ messages'[Len(messages')].role = role
    /\ messages'[Len(messages')].conversation_id = reqs'[s].loc.conversation
    /\ reqs'[s].loc.conversation \in 1..Len(convs)
    /\ convs[reqs'[s].loc.conversation].user_id = reqs'[s].user

\* C27: a chat request changes no user, item, tag, association or file and
\* no existing conversation or message; taking it up creates at most one
\* conversation, of the requester; it then appends one user message and, at
\* its end, one assistant message, both to that one conversation.
C27_ChatFrame ==
    [][\A s \in Slots :
        ChatStep(s) =>
            /\ UNCHANGED <<users, items, tags, item_tags, files>>
            /\ IF reqs'[s].pc = "userMessage"
               THEN /\ UNCHANGED messages
                    /\ \/ UNCHANGED convs
                       \/ /\ convs' = Append(convs, [user_id |-> reqs'[s].user])
                          /\ reqs'[s].loc.conversation = Len(convs')
               ELSE IF reqs[s].pc = "userMessage"
               THEN UNCHANGED convs /\ AddsTurn(s, "user")
               ELSE IF reqs'[s].pc = "done" /\ reqs'[s].user # 0
               THEN /\ UNCHANGED convs /\ AddsTurn(s, "assistant")
                    /\ reqs[s].loc.conversation = reqs'[s].loc.conversation
                    /\ messages[reqs[s].loc.user_message].conversation_id
                            = reqs[s].loc.conversation
               ELSE UNCHANGED <<convs, messages>>]_vars

\* C27: a chat request that named another user's conversation was answered
\* while the requester had an item.
C27_Witness ==
    \E s \in Slots :
        /\ Answered(s, "chat")
        /\ reqs[s].in.conversation_id \in 1..Len(convs)
        /\ convs[reqs[s].in.conversation_id].user_id # reqs[s].user
        /\ reqs[s].resp.conversation_id # reqs[s].in.conversation_id
        /\ \E i \in 1..Len(items) : items[i].user_id = reqs[s].user

\* The role of the k-th turn of a conversation whose turns alternate,
\* starting with the user.
TurnRole(k) == IF k % 2 = 1 THEN "user" ELSE "assistant"

\* C28: with one chat request after another, the messages of each
\* conversation in commit order are user, assistant, user, assistant, ...,
\* as get_conversation_messages lists them, and their number is even
\* whenever no request is under way.
C28_TurnsAlternate ==
    /\ \A c \in 1..Len(convs) :
            /\ \A k \in 1..Len(MessagesOf(c)) :
                    messages[MessagesOf(c)[k]].role = TurnRole(k)
            /\ Quiet => Len(MessagesOf(c)) % 2 = 0
    /\ \A s \in Slots :
            Answered(s, "list-messages") =>
                /\ Len(reqs[s].resp.body) % 2 = 0
                /\ \A k \in 1..Len(reqs[s].resp.body) :
                        reqs[s].resp.body[k].role = TurnRole(k)

\* C28: the four messages of a conversation that served two chat requests
\* were listed.
C28_Witness ==
    \E s \in Slots :
        /\ Answered(s, "list-messages")
        /\ Len(reqs[s].resp.body) = 4
        /\ MessagesOf(reqs[s].in.conversation_id) = <<1, 2, 3, 4>>

\* The request of slot s is in the tag step of its handler, or has left it.
InTagStep(s) ==
    /\ reqs[s].op \in {"create", "upload"}
    /\ reqs[s].pc \in {"tagQuery", "tagInsert", "tagCommit"}

\* The association rows of an item.
RowsOf(rows, item) == FilterSeq(rows, {r \in Range(rows) : r[1] = item})

\* C29: a request enters the tag step with its item committed; a step
\* commits at most one new tag; a failure of the record store in the tag step
\* ends the request in an error and leaves the item and what was committed
\* for it; and every association row refers to a committed item and a
\* committed tag.
C29_ItemCommittedBeforeTags ==
    [][/\ \A s \in Slots :
            /\ InTagStep(s)' =>
                    /\ reqs'[s].loc.item \in 1..Len(items')
                    /\ items'[reqs'[s].loc.item].user_id = reqs'[s].user
            /\ (InTagStep(s) /\ reqs'[s].resp = StoreFailed) =>
                    /\ UNCHANGED <<items, tags, item_tags>>
                    /\ reqs'[s].pc = "done"
                    /\ reqs[s].loc.item \in 1..Len(items')
       /\ Len(tags') <= Len(tags) + 1
       /\ (tags' # tags \/ item_tags' # item_tags) =>
                \E s \in Slots : InTagStep(s) /\ UNCHANGED items
       /\ \A r \in Range(item_tags') :
                r[1] \in 1..Len(items') /\ r[2] \in 1..Len(tags')]_vars

\* C29: the record store failed in the tag step of a request with two tag
\* names after the first tag was committed and before it was associated: the
\* item is committed without a tag.
C29_Witness ==
    \E s \in Slots :
        /\ reqs[s].op = "create" /\ reqs[s].pc = "done"
        /\ reqs[s].resp = StoreFailed
        /\ reqs[s].loc.i = 2
        /\ reqs[s].loc.item \in 1..Len(items)
        /\ RowsOf(item_tags, reqs[s].loc.item) = <<>>
        /\ TagsNamed(reqs[s].in.tags[1], reqs[s].user) # {}

\* C30: no two users have the same e-mail; a login that is answered with a
\* token names the one user of its e-mail, and a login whose insert was
\* rejected ends in a server error, the e-mail being another request's user.
C30_OneUserPerEmail ==
    /\ \A email \in Emails : Cardinality(UsersWithEmail(email)) <= 1
    /\ \A s \in Slots :
            (reqs[s].op = "login" /\ reqs[s].pc = "done") =>
                /\ reqs[s].resp.status \in {200, 403, 500}
                /\ reqs[s].resp.status = 200 =>
                        UsersWithEmail(reqs[s].email) = {reqs[s].resp.user}
                /\ reqs[s].resp.status = 500 =>
                        /\ environment = "development"
                        /\ UsersWithEmail(reqs[s].email) # {}
                /\ reqs[s].resp.status = 403 <=> environment # "development"

\* C30: of two overlapping logins with the same new e-mail one was answered
\* with the new user and the other ended in a server error.
C30_Witness ==
    \E s, t \in Slots :
        /\ reqs[s].op = "login" /\ reqs[t].op = "login"
        /\ reqs[s].email = reqs[t].email
        /\ reqs[s].pc = "done" /\ reqs[s].resp.status = 200
        /\ reqs[t].pc = "done" /\ reqs[t].resp.status = 500
        /\ Cardinality(UsersWithEmail(reqs[s].email)) = 1

====
